---- MODULE Spec2Model ----
(***************************************************************************)
(* Model of the summarization engine of jqassistant-graph-rag:             *)
(*   - SummaryCacheManager  (summary_cache_manager.py)                     *)
(*   - NodeSummaryProcessor (node_summary_processor.py)                    *)
(*   - BaseSummarizer and the summarizer passes                            *)
(*   - RagOrchestrator      (rag_orchestrator.py)                          *)
(* Summaries, analyses and hashes are abstract naturals; 0 stands for an   *)
(* absent property (None / missing key).                                   *)
(***************************************************************************)
EXTENDS Integers, FiniteSets, Sequences, TLC

VARIABLES
    disk,        \* the four cache files under .cache/
    cache,       \* SummaryCacheManager.cache (in memory)
    spc,         \* position inside SummaryCacheManager.save()
    preSave,     \* history: the files as they were when save() was entered
    saveOutcome, \* history: how the last save() ended
    loaded,      \* history: what load() produced after a restart
    opc,         \* position of the caller (orchestrator or direct API use)
    err,         \* an exception is propagating out of run_rag_passes
    db,          \* graph store: summary, code_analysis, code_hash, embedding per node
    src,         \* source text (version) of each method on disk
    rs,          \* SummaryCacheManager.runtime_status per entity id
    runNo,       \* number of the current invocation of the pipeline
    bpc,         \* position inside the current pass: "query" or "run"
    level,       \* TypeSummarizer.run: index of the inheritance level being processed
    batch,       \* items_to_process of the running process_batch
    bpass,       \* history: the pass the batch belongs to
    wpc,         \* position of the worker handling each item
    wres,        \* the result dict of each item
    astat,       \* history: status of each method's code analysis in this run
    sstat,       \* history: status of each node's summary in this run
    faults,      \* number of failures of external services so far
    runFaults,   \* history: failures of external services in this run
    llmFailed,   \* history: items of the batch whose LLM call failed
    saveCount,   \* history: calls of save() in this run
    edited,      \* history: methods whose source was edited before this run
    pending,     \* methods edited since the last run ended
    prevComplete,\* history: the previous run summarized every node and saved
    seenStale,   \* history: a dependency was changed when the item was decided
    wrote,       \* history: items of the batch that have written cache or status
    crossRead,   \* history: <<reader, writer>> reads of a batch-mate's write
    cache0,      \* history: the cache map when the batch started
    rs0,         \* history: runtime_status when the batch started
    written,     \* history: ids sent in the write queries of the current batch
    nWrites,     \* history: write queries issued for the current batch
    branch,      \* history: the waterfall branch whose condition held when the item was decided
    passLog,     \* history: the passes that have issued a query in this run, in order
    runWritten,  \* history: ids sent in summarizer write queries during this run
    embWritten,  \* history: ids whose summaryEmbedding was written during this run
    sameProc,    \* history: this run reuses the orchestrator of the previous run
    failedIn,    \* history: the last run in which the item's LLM call failed (0: none)
    g,           \* the graph being normalized: labels, properties and edges of its nodes
    npc,         \* the next call of run_enrichment_passes ("off", "done")
    relocMap,    \* ArtifactDataNormalizer.relocated_artifacts_map
    normLog,     \* history: the normalization passes that have run, in order
    gReloc,      \* history: the graph as the first relocation left it
    relocRuns,   \* history: how many times the relocation has run on this graph
    tk,          \* one call of TokenManager.chunk_text_by_tokens
    fold,        \* one regeneration (step 3) of NodeSummaryProcessor
    link,        \* one call of SourceFileLinker._enrich_graph_with_types
    lvl,         \* one call of TypeSummarizer.run on some inheritance graph
    anc,         \* the anchor loop of one _process_single_directory_artifact call
    emb          \* one call of EntityEmbedder.add_entity_labels_and_embeddings

sumVars == <<err, db, src, rs, runNo, bpc, level, batch, bpass, wpc, wres, astat, sstat,
             faults, runFaults, llmFailed, saveCount, edited, pending, prevComplete,
             seenStale, wrote, crossRead, cache0, rs0, written, nWrites,
             branch, passLog, runWritten, embWritten, sameProc, failedIn>>
normVars == <<g, npc, relocMap, normLog, gReloc, relocRuns>>
auxVars == <<lvl, anc, emb>>
tokVars == <<tk, fold, link, auxVars>>
runVars == <<sumVars, normVars, tokVars>>
vars == <<disk, cache, spc, preSave, saveOutcome, loaded, opc, runVars>>

----------------------------------------------------------------------------
(* Graph normalization (GraphOrchestrator.run_enrichment_passes).          *)
(* A path string is the sequence of its segments: "/proj/out" is           *)
(* <<"proj", "out">> and "" is <<>>, so string concatenation is \o.  A     *)
(* dotted fqn is the sequence of its parts.  No two names of the fixture   *)
(* share a character prefix, so a character-wise STARTS WITH on a path     *)
(* and the segment-wise prefix agree on every path of the model.           *)

GNodes == {"R", "o", "oc", "misc", "src", "A", "B", "mA", "mP", "S", "T1", "R2", "T2", "P", "Q"}
GDirs  == {"R", "o", "oc", "misc", "src", "R2"}

\* A property that is not set (null).
NoPath == <<"?">>
NoId   == <<>>

IsPrefix(p, q) == Len(p) <= Len(q) /\ SubSeq(q, 1, Len(p)) = p
IsSuffix(p, q) == Len(p) <= Len(q) /\ SubSeq(q, Len(q) - Len(p) + 1, Len(q)) = p
Front(q) == SubSeq(q, 1, Len(q) - 1)
\* q is exactly one segment below p: STARTS WITH p + '/' and one more part.
IsChildPath(p, q) == Len(q) = Len(p) + 1 /\ IsPrefix(p, q)

\* Characters of one name, for len() of a dotted fqn string.
StrLen(s) ==
    CASE s = "com" -> 3 [] s = "out" -> 3 [] s = "src" -> 3 [] s = "proj" -> 4 [] s = "zz" -> 2
      [] OTHER -> 1

RECURSIVE JoinedLen(_)
JoinedLen(f) ==
    IF f = <<>> THEN 0
    ELSE IF Len(f) = 1 THEN StrLen(f[1])
    ELSE StrLen(f[1]) + 1 + JoinedLen(Tail(f))

\* The extension a file name ends with.
Extension(s) ==
    CASE s = "S.java" -> "java" [] s = "T.java" -> "java" [] s = "A.class" -> "class" [] s = "B.class" -> "class"
      [] OTHER -> "none"

\* (t)-[:DECLARES]->(m) and the member's signature.  mP is the member node
\* the scanner made for a reference to mA: the same signature, no name.
GDeclares == {<<"A", "mA">>, <<"A", "mP">>}
Signature == [n \in GNodes |-> IF n \in {"mA", "mP"} THEN <<"void run()">> ELSE NoPath]

\* What the scanner stored for a directory scanned as a classpath: the entry
\* node R has the absolute path as fileName and directly contains every node
\* of the tree, whose fileName is relative to R; a directory also contains
\* its direct children.  fa and fb are the fqns of the two class files
\* (fb = NoPath: the second class file does not exist); ph: the scanner left
\* the phantom member mP; nested: the source directory /proj/src exists and
\* was also scanned on its own, as the entry node R2 with the source file
\* T2, which the scan of /proj holds as T1 in the directory src.
FqnsOfA == {<<"com", "A">>, <<"out", "com", "A">>, <<"zz", "A">>, <<"A">>}
FqnsOfB == {NoPath, <<"x", "B">>, <<"s", "B">>, <<"B">>}

Scanned(fa, fb, ph, nested) ==
    LET here == GNodes \ ({"P", "Q"} \cup (IF fb = NoPath THEN {"B"} ELSE {})
                                  \cup (IF ph THEN {} ELSE {"mP"})
                                  \cup (IF nested THEN {} ELSE {"src", "R2", "T1", "T2"}))
    IN [ labels |-> [n \in GNodes |->
                       IF n \notin here THEN {}
                       ELSE IF n \in {"R", "R2"} THEN {"File", "Directory", "Artifact"}
                       ELSE IF n \in GDirs THEN {"File", "Directory", "Package"}
                       ELSE IF n \in {"A", "B"} THEN {"File", "Class", "Type"}
                       ELSE IF n \in {"mA", "mP"} THEN {"Member", "Method"}
                       ELSE {"File"}],
         fileName |-> [n \in GNodes |->
                       CASE n = "R" -> <<"proj">>
                         [] n = "o" -> <<"out">>
                         [] n = "oc" -> <<"out", "com">>
                         [] n = "misc" -> <<"s">>
                         [] n = "A" -> <<"out", "com", "A.class">>
                         [] n = "B" -> <<"s", "B.class">>
                         [] n = "S" -> <<"S.java">>
                         [] n = "src" -> <<"src">>
                         [] n = "T1" -> <<"src", "T.java">>
                         [] n = "R2" -> <<"proj", "src">>
                         [] n = "T2" -> <<"T.java">>
                         [] OTHER -> NoPath],
         abs |-> [n \in GNodes |-> NoPath],
         fqn |-> [n \in GNodes |->
                       CASE n = "o" -> <<"out">>
                         [] n = "oc" -> <<"out", "com">>
                         [] n = "misc" -> <<"s">>
                         [] n = "src" -> <<"src">>
                         [] n = "A" -> fa
                         [] n = "B" -> fb
                         [] OTHER -> NoPath],
         contains |-> {e \in ({"R"} \X {"o", "oc", "misc", "src", "A", "B", "S", "T1"})
                             \cup {<<"o", "oc">>, <<"oc", "A">>, <<"misc", "B">>,
                                   <<"src", "T1">>, <<"R2", "T2">>} :
                         e[2] \in here},
         ccls |-> {},
         csrc |-> {},
         requires |-> {},
         depends |-> {},
         eid |-> [n \in GNodes |-> NoId] ]

\* The scanned graph with the dependencies of its classes on a type Q that
\* no scanned tree contains: (c)-[:DEPENDS_ON]->(Q) for every class file
\* and (R)-[:REQUIRES]->(Q) for the Artifact R that holds them.
WithRequirements(gr) ==
    [gr EXCEPT !.labels = [gr.labels EXCEPT !["Q"] = {"Type"}],
               !.fqn = [gr.fqn EXCEPT !["Q"] = <<"Q">>],
               !.requires = {<<"R", "Q">>},
               !.depends = {<<c, "Q">> : c \in {n \in {"A", "B"} : gr.labels[n] # {}}}]

Has(gr, n, l) == l \in gr.labels[n]

\* Pairs <<a, d>> with a path of one or more edges of rel from a to d.
RECURSIVE Closure(_)
Closure(rel) ==
    LET step == rel \cup {<<x[1][1], x[2][2]>> : x \in {y \in rel \X rel : y[1][2] = y[2][1]}}
    IN IF step = rel THEN rel ELSE Closure(step)

\* GraphBasicNormalizer.add_absolute_paths, up to its return statement.
AddAbsolutePaths(gr) ==
    LET tops == {e \in GNodes : Has(gr, e, "Directory")
                    /\ ~\E d \in GNodes : Has(gr, d, "Directory") /\ <<d, e>> \in gr.contains}
        abs1 == [n \in GNodes |-> IF n \in tops THEN gr.fileName[n] ELSE gr.abs[n]]
        owners(c) == {e \in tops : <<e, c>> \in gr.contains}
    IN [gr EXCEPT !.abs = [n \in GNodes |->
            IF Has(gr, n, "File") /\ owners(n) # {} /\ gr.fileName[n] # NoPath
            THEN abs1[CHOOSE e \in owners(n) : TRUE] \o gr.fileName[n]
            ELSE abs1[n]]]

LabelSourceFiles(gr) ==
    [gr EXCEPT !.labels = [n \in GNodes |->
        IF Has(gr, n, "File") /\ gr.abs[n] # NoPath /\ gr.abs[n] # <<>>
           /\ Extension(gr.abs[n][Len(gr.abs[n])]) \in {"java", "kt"}
        THEN gr.labels[n] \cup {"SourceFile"}
        ELSE gr.labels[n]]]

\* The fileName of every (a:Artifact:Directory) that has one.
ArtifactPaths(gr) ==
    {gr.fileName[a] : a \in {n \in GNodes : Has(gr, n, "Artifact") /\ Has(gr, n, "Directory")
                                             /\ gr.fileName[n] # NoPath}}

\* os.path.commonpath: the longest sequence of segments every path starts with.
CommonPath(paths) ==
    LET p0 == CHOOSE p \in paths : TRUE
        ks == {k \in 0..Len(p0) : \A p \in paths : IsPrefix(SubSeq(p0, 1, k), p)}
    IN SubSeq(p0, 1, CHOOSE k \in ks : \A j \in ks : j <= k)

\* GraphTreeBuilder.create_project_node; Path.resolve() leaves an absolute
\* path without links as it is.
CreateProjectNode(gr) ==
    [gr EXCEPT !.labels = [gr.labels EXCEPT !["P"] = @ \cup {"Project"}],
               !.abs = [gr.abs EXCEPT !["P"] = CommonPath(ArtifactPaths(gr))],
               !.contains = @ \cup {<<"P", a>> : a \in {n \in GNodes :
                                        Has(gr, n, "Artifact") /\ Has(gr, n, "Directory")}}]

RECURSIVE SourceLevels(_, _, _)
SourceLevels(gr, edges, depth) ==
    IF depth < 0 THEN edges
    ELSE SourceLevels(gr,
            edges \cup {e \in GNodes \X GNodes :
                          /\ Has(gr, e[1], "Directory") /\ gr.abs[e[1]] # NoPath
                          /\ Len(gr.abs[e[1]]) = depth
                          /\ Has(gr, e[2], "Directory") /\ gr.abs[e[2]] # NoPath
                          /\ IsChildPath(gr.abs[e[1]], gr.abs[e[2]])
                          /\ \E x \in GNodes : <<e[2], x>> \in edges},
            depth - 1)

\* GraphTreeBuilder.establish_source_hierarchy
EstablishSourceHierarchy(gr) ==
    LET files == {e \in GNodes \X GNodes :
                    /\ Has(gr, e[1], "Directory") /\ gr.abs[e[1]] # NoPath
                    /\ Has(gr, e[2], "SourceFile") /\ gr.abs[e[2]] # NoPath
                    /\ IsChildPath(gr.abs[e[1]], gr.abs[e[2]])}
        dirs == SourceLevels(gr, gr.csrc \cup files, Cardinality(GNodes))
        tops == {<<"P", d>> : d \in {n \in GNodes :
                    /\ Has(gr, "P", "Project")
                    /\ Has(gr, n, "Directory") /\ Has(gr, n, "Artifact")
                    /\ \E x \in GNodes : <<n, x>> \in dirs}}
    IN [gr EXCEPT !.csrc = dirs \cup tops]

\* Nodes matched by (cont:Directory {fileName: af})-[:CONTAINS]->(d:Directory).
DirsUnder(gr, af) ==
    {d \in GNodes : Has(gr, d, "Directory")
        /\ \E cont \in GNodes : Has(gr, cont, "Directory") /\ gr.fileName[cont] = af
                                 /\ <<cont, d>> \in gr.contains}

CorrectFqnsInSubtree_AllPaths(gr, af, root) ==
    [gr EXCEPT !.fqn = [n \in GNodes |->
        IF gr.fileName[n] # NoPath /\ IsPrefix(root, gr.fileName[n])
        THEN SubSeq(gr.fileName[n], Len(root) + 1, Len(gr.fileName[n]))
        ELSE gr.fqn[n]]]

\* The characters of a directory name, and the name a string of characters
\* spells ("c" is what is left of "src" behind its first two characters).
NameChars(s) ==
    CASE s = "proj" -> <<"p", "r", "o", "j">> [] s = "out" -> <<"o", "u", "t">>
      [] s = "com" -> <<"c", "o", "m">> [] s = "src" -> <<"s", "r", "c">>
      [] s = "" -> <<>>
      [] OTHER -> <<s>>
KnownNames == {"proj", "out", "com", "src", "s", "c", ""}
NameOf(chars) == CHOOSE n \in KnownNames : NameChars(n) = chars

\* The path as the string the graph stores: "/" before every segment.
RECURSIVE PathString(_)
PathString(path) ==
    IF path = <<>> THEN <<>> ELSE <<"/">> \o NameChars(Head(path)) \o PathString(Tail(path))

\* str.replace(a, b)
ReplaceChar(chars, a, b) == [i \in 1..Len(chars) |-> IF chars[i] = a THEN b ELSE chars[i]]

\* A dotted string as the sequence of its parts (the empty string: no part).
RECURSIVE SplitDots(_, _)
SplitDots(chars, part) ==
    IF chars = <<>> THEN <<NameOf(part)>>
    ELSE IF Head(chars) = "." THEN <<NameOf(part)>> \o SplitDots(Tail(chars), <<>>)
    ELSE SplitDots(Tail(chars), Append(part, Head(chars)))

\* dir_path[len(root_path) + 1:].replace('/', '.')
CorrectFqn(dir_path, root_path) ==
    LET relative_path == SubSeq(dir_path, Len(root_path) + 2, Len(dir_path))
    IN IF relative_path = <<>> THEN <<>> ELSE SplitDots(ReplaceChar(relative_path, "/", "."), <<>>)

\* ArtifactDataNormalizer._correct_fqns_in_subtree: STARTS WITH compares
\* the strings, character by character.
CorrectFqnsInSubtree(gr, af, root) ==
    LET hit == {d \in DirsUnder(gr, af) : gr.fileName[d] # NoPath
                   /\ IsPrefix(PathString(root), PathString(gr.fileName[d]))
                   /\ Len(PathString(gr.fileName[d])) > Len(PathString(root))}
    IN [gr EXCEPT !.fqn = [n \in GNodes |->
            IF n \in hit THEN CorrectFqn(PathString(gr.fileName[n]), PathString(root))
            ELSE gr.fqn[n]]]

\* The class files the artifact's query returns.  The code keys them by fqn;
\* the two class files of the fixture never have the same fqn.
ClassFiles(gr, af) ==
    {c \in GNodes : Has(gr, c, "File") /\ Has(gr, c, "Class")
        /\ gr.fqn[c] # NoPath /\ gr.fileName[c] # NoPath
        /\ \E a \in GNodes : Has(gr, a, "Artifact") /\ Has(gr, a, "Directory")
                              /\ gr.fileName[a] = af /\ <<a, c>> \in gr.contains}

\* The while loop of _process_single_directory_artifact: every set of roots
\* it can end with (max() takes the first of several longest fqns, in the
\* order the query returned them).
RECURSIVE TrueArtifactRoots(_, _, _)
TrueArtifactRoots(gr, unprocessed, roots) ==
    IF unprocessed = {} THEN {roots}
    ELSE UNION {
        LET package == Front(gr.fqn[anchor])
            anchor_dir == Front(gr.fileName[anchor])
            root == SubSeq(anchor_dir, 1, Len(anchor_dir) - Len(package))
            processed == {c \in unprocessed : IsPrefix(root, gr.fileName[c])}
        IN IF ~IsSuffix(package, anchor_dir)
           THEN TrueArtifactRoots(gr, unprocessed \ {anchor}, roots)
           ELSE TrueArtifactRoots(gr, unprocessed \ processed, roots \cup {root})
        : anchor \in {c \in unprocessed : \A d \in unprocessed :
                          JoinedLen(gr.fqn[d]) <= JoinedLen(gr.fqn[c])} }

\* MATCH (a:Directory {fileName}) WHERE a:Artifact REMOVE a:Artifact
Demote(gr, af) ==
    [gr EXCEPT !.labels = [n \in GNodes |->
        IF Has(gr, n, "Directory") /\ gr.fileName[n] = af
        THEN gr.labels[n] \ {"Artifact"} ELSE gr.labels[n]]]

Promote_LabelOnly(gr, af, root) ==
    [gr EXCEPT !.labels = [n \in GNodes |->
        IF n \in DirsUnder(gr, af) /\ gr.fileName[n] = root
        THEN gr.labels[n] \cup {"Artifact"} ELSE gr.labels[n]]]

\* SET d:Artifact, d.fileName = d.absolute_path, then the fqns below it.
Promote(gr, af, root) ==
    LET ds == {d \in DirsUnder(gr, af) : gr.fileName[d] = root}
        g1 == [gr EXCEPT
                 !.labels = [n \in GNodes |-> IF n \in ds THEN gr.labels[n] \cup {"Artifact"}
                                              ELSE gr.labels[n]],
                 !.fileName = [n \in GNodes |-> IF n \in ds THEN gr.abs[n]
                                                ELSE gr.fileName[n]]]
    IN CorrectFqnsInSubtree(g1, af, root)

\* "for root_path in true_artifact_roots": the graphs the loop can end with,
\* one per order in which the set can be iterated.
RECURSIVE PromoteAll(_, _, _)
PromoteAll(gr, af, roots) ==
    IF roots = {} THEN {gr}
    ELSE UNION {UNION {PromoteAll(g1, af, roots \ {r}) : g1 \in {Promote(gr, af, r)}} : r \in roots}

\* relocated_artifacts_map as a function from the keys to the set of the
\* paths in the list.
MapPut(map, k, v) == [x \in (DOMAIN map) \cup {k} |-> IF x = k THEN v ELSE map[x]]

\* ArtifactDataNormalizer._process_single_directory_artifact: the outcomes
\* <<graph, map>> it can produce.
ProcessSingleDirectoryArtifact(gr, map, af) ==
    IF ClassFiles(gr, af) = {}
    THEN {<<Demote(gr, af), MapPut(map, af, {})>>}
    ELSE UNION {IF roots = {<<>>}
                THEN {<<CorrectFqnsInSubtree(gr, af, <<>>), MapPut(map, af, {af})>>}
                ELSE {<<g1, MapPut(map, af, {af \o r : r \in roots})>>
                      : g1 \in PromoteAll(Demote(gr, af), af, roots)}
                : roots \in TrueArtifactRoots(gr, ClassFiles(gr, af), {})}

\* ArtifactDataNormalizer.rewrite_containment_relationships
RewriteContainmentRelationships(gr, map) ==
    LET added == gr.contains \cup {e \in Closure(gr.contains) : Has(gr, e[1], "Artifact")}
        cleaned == {k \in DOMAIN map : map[k] # {}}
        stale == {e \in added : /\ gr.fileName[e[1]] \in cleaned
                                /\ gr.abs[e[1]] # NoPath /\ gr.abs[e[2]] # NoPath
                                /\ Len(gr.abs[e[2]]) > Len(gr.abs[e[1]]) + 1}
    IN [gr EXCEPT !.contains = added \ stale]

\* A pass that clears the REQUIRES edges of the demoted roots only.
RewriteRequirementRelationships_DemotedOnly(gr, map) ==
    [gr EXCEPT !.requires = {e \in gr.requires : Has(gr, e[1], "Artifact")}]

\* ArtifactDataNormalizer.rewrite_requirement_relationships.  No promoted
\* Artifact of the fixture is the demoted root of another entry, so the
\* order of the loop over the map does not change what it merges.
RewriteRequirementRelationships(gr, map) ==
    LET merged == {e \in GNodes \X GNodes :
                     \E k \in DOMAIN map : \E demotedRoot, internalType \in GNodes :
                        /\ map[k] # {}
                        /\ gr.fileName[demotedRoot] = k
                        /\ Has(gr, e[1], "Artifact") /\ Has(gr, e[1], "Directory")
                        /\ gr.fileName[e[1]] \in map[k]
                        /\ <<e[1], internalType>> \in gr.contains /\ Has(gr, internalType, "Type")
                        /\ <<internalType, e[2]>> \in gr.depends /\ Has(gr, e[2], "Type")
                        /\ <<demotedRoot, e[2]>> \in gr.requires}
        deleted == {e \in gr.requires \cup merged :
                      gr.fileName[e[1]] \in DOMAIN map /\ Has(gr, e[2], "Type")}
    IN [gr EXCEPT !.requires = (gr.requires \cup merged) \ deleted]

\* ArtifactDataNormalizer._establish_class_hierarchy_in_single_artifact
ClassHierarchyInSingleArtifact(gr, ap) ==
    LET arts == {a \in GNodes : Has(gr, a, "Artifact") /\ gr.fileName[a] = ap}
        inside(n) == \E a \in arts : <<a, n>> \in gr.contains
        paths == {gr.fileName[d] : d \in {n \in GNodes : inside(n) /\ Has(gr, n, "Directory")
                                                       /\ gr.fileName[n] # NoPath}}
        parents == {p \in GNodes : Has(gr, p, "Directory") /\ gr.fileName[p] \in paths /\ inside(p)}
        types == {e \in parents \X GNodes :
                    /\ inside(e[2]) /\ Has(gr, e[2], "Type") /\ Has(gr, e[2], "File")
                    /\ gr.fileName[e[2]] # NoPath
                    /\ IsChildPath(gr.fileName[e[1]], gr.fileName[e[2]])}
        dirs == {e \in parents \X GNodes :
                    /\ Has(gr, e[2], "Directory") /\ gr.fileName[e[2]] # NoPath
                    /\ IsChildPath(gr.fileName[e[1]], gr.fileName[e[2]])
                    /\ e \in gr.contains}
        inner == gr.ccls \cup types \cup dirs
        tops == {e \in arts \X GNodes :
                    /\ e \in gr.contains /\ Has(gr, e[2], "Directory")
                    /\ ~\E x \in GNodes : <<x, e[2]>> \in inner
                    /\ \/ Has(gr, e[2], "Type")
                       \/ \E t \in GNodes : Has(gr, t, "Type") /\ <<e[2], t>> \in Closure(inner)}
    IN [gr EXCEPT !.ccls = inner \cup tops]

\* The artifacts of the fixture never contain each other, so the order of
\* the loop over the set of paths does not change its result.
RECURSIVE ClassHierarchyAll(_, _)
ClassHierarchyAll(gr, paths) ==
    IF paths = {} THEN gr
    ELSE LET ap == CHOOSE x \in paths : TRUE
         IN ClassHierarchyAll(ClassHierarchyInSingleArtifact(gr, ap), paths \ {ap})

\* ArtifactDataNormalizer.establish_class_hierarchy
EstablishClassHierarchy(gr, map) ==
    ClassHierarchyAll(gr, UNION {map[k] : k \in DOMAIN map}
                          \cup {gr.fileName[a] : a \in {n \in GNodes :
                                    Has(gr, n, "Jar") /\ Has(gr, n, "Artifact")}})

\* ArtifactDataNormalizer.cleanup_package_semantics
CleanupPackageSemantics(gr) ==
    LET bare == {d \in GNodes : Has(gr, d, "Directory") /\ Has(gr, d, "Package")
                    /\ ~\E x \in GNodes : <<x, d>> \in gr.ccls}
    IN [gr EXCEPT !.labels = [n \in GNodes |-> IF n \in bare THEN gr.labels[n] \ {"Package"}
                                              ELSE gr.labels[n]],
                  !.fqn = [n \in GNodes |-> IF n \in bare THEN NoPath ELSE gr.fqn[n]]]

\* ArtifactDataNormalizer.link_project_to_artifacts
LinkProjectToArtifacts(gr) ==
    [gr EXCEPT !.ccls = @ \cup {e \in GNodes \X GNodes :
                                  /\ Has(gr, e[1], "Project")
                                  /\ Has(gr, e[2], "Artifact") /\ ~Has(gr, e[2], "Maven")}]

RECURSIVE Joined(_)
Joined(parts) == IF parts = <<>> THEN <<>> ELSE Head(parts) \o Joined(Tail(parts))

\* apoc.util.md5 of a list of strings: the digest of the strings joined
\* without a separator, so two lists with the same joined text have the
\* same digest; a digest is never equal to a path.
Md5List(parts) == <<"md5">> \o Joined(parts)

\* The entity_id that query q (2..5) of create_entities_and_stable_ids SETs
\* on node n, NoId when the query does not match n.  A node of the fixture
\* is contained by at most one Artifact when the pass runs.
EntityWrite(gr, q, n) ==
    LET arts == {a \in GNodes : Has(gr, a, "Artifact") /\ gr.fileName[a] # NoPath}
        holders == {a \in arts : <<a, n>> \in gr.contains}
        owners == {e \in arts \X GNodes :
                        /\ e \in gr.contains /\ Has(gr, e[2], "Type")
                        /\ gr.fileName[e[2]] # NoPath /\ <<e[2], n>> \in GDeclares}
    IN CASE q = 2 /\ Has(gr, n, "Project")
              -> Md5List(<<<<"Project://">>, gr.abs[n]>>)
         [] q = 3 /\ n \in arts
              -> Md5List(<<gr.fileName[n]>>)
         [] q = 4 /\ holders # {} /\ gr.fileName[n] # NoPath
                 /\ (Has(gr, n, "File") \/ Has(gr, n, "Directory")
                        \/ Has(gr, n, "Package") \/ Has(gr, n, "Type"))
              -> Md5List(<<gr.fileName[CHOOSE a \in holders : TRUE], gr.fileName[n]>>)
         [] q = 5 /\ owners # {} /\ Has(gr, n, "Member") /\ Signature[n] # NoPath
              -> LET e == CHOOSE x \in owners : TRUE
                 IN Md5List(<<gr.fileName[e[1]], gr.fileName[e[2]], Signature[n]>>)
         [] OTHER -> NoId

\* The graph after query q has SET n:Entity and n.entity_id on its matches.
EntityQuery(gr, q) ==
    LET id == [n \in GNodes |-> EntityWrite(gr, q, n)]
    IN [gr EXCEPT
          !.labels = [n \in GNodes |-> IF id[n] # NoId THEN gr.labels[n] \cup {"Entity"}
                                       ELSE gr.labels[n]],
          !.eid = [n \in GNodes |-> IF id[n] # NoId THEN id[n] ELSE gr.eid[n]]]

\* The constraint entity_id_unique rejects a write that leaves two Entity
\* nodes with one entity_id.
ViolatesUnique(gr) ==
    \E n, m \in GNodes : /\ n # m
                         /\ Has(gr, n, "Entity") /\ Has(gr, m, "Entity")
                         /\ gr.eid[n] = gr.eid[m]

\* Query q of the pass, one transaction, after the queries before it ended
\* as r = <<graph, completed>>: a rejected query writes nothing and ends
\* the pass.
EntityStep(r, q) ==
    IF ~r[2] THEN r
    ELSE IF ViolatesUnique(EntityQuery(r[1], q)) THEN <<r[1], FALSE>>
    ELSE <<EntityQuery(r[1], q), TRUE>>

\* GraphEntitySetter.create_entities_and_stable_ids: the outcomes
\* <<graph, completed>> of its four queries.
CreateEntitiesAndStableIds(gr) ==
    UNION {UNION {UNION {{EntityStep(r4, 5)} : r4 \in {EntityStep(r3, 4)}}
                  : r3 \in {EntityStep(r2, 3)}}
           : r2 \in {EntityStep(<<gr, TRUE>>, 2)}}

\* MATCH (a:Directory:Artifact) RETURN a.fileName
ArtifactFiles(gr) ==
    {gr.fileName[a] : a \in {n \in GNodes : Has(gr, n, "Artifact") /\ Has(gr, n, "Directory")}}

\* ArtifactDataNormalizer.relocate_directory_artifacts: the <<graph, map>>
\* outcomes of the loop over the artifacts, in any order of the query's rows.
RECURSIVE RelocateDirectoryArtifacts(_, _, _)
RelocateDirectoryArtifacts(gr, map, files) ==
    IF files = {} THEN {<<gr, map>>}
    ELSE UNION {UNION {RelocateDirectoryArtifacts(o[1], o[2], files \ {af})
                       : o \in ProcessSingleDirectoryArtifact(gr, map, af)}
                : af \in files}

\* The calls of run_enrichment_passes, in the order of the code.
EnrichmentPasses ==
    <<"add_absolute_paths", "label_source_files", "link_types_to_source_files",
      "link_members_to_source_files", "create_project_node", "establish_source_hierarchy",
      "relocate_directory_artifacts", "rewrite_containment_relationships",
      "establish_class_hierarchy", "cleanup_package_semantics", "link_project_to_artifacts",
      "create_entities_and_stable_ids">>

\* The call that follows the call p ("done" after the last one).
AfterPass(p) ==
    LET i == CHOOSE k \in 1..Len(EnrichmentPasses) : EnrichmentPasses[k] = p
    IN IF i = Len(EnrichmentPasses) THEN "done" ELSE EnrichmentPasses[i + 1]

EmptyMap == [x \in {} |-> {}]

\* The number of times relocate_directory_artifacts is run on one graph.
MaxRelocateRuns == 2

pipeVars == <<disk, cache, spc, preSave, saveOutcome, loaded, opc, sumVars>>


\* One call of run_enrichment_passes that only rewrites the graph.
GraphPass(p, newG) ==
    /\ npc = p
    /\ g' = newG
    /\ npc' = AfterPass(p)
    /\ normLog' = Append(normLog, p)
    /\ UNCHANGED <<relocMap, gReloc, relocRuns, pipeVars, tokVars>>

PassAddAbsolutePaths ==
    /\ npc = "add_absolute_paths"
    /\ GraphPass(npc, AddAbsolutePaths(g))

PassLabelSourceFiles ==
    /\ npc = "label_source_files"
    /\ GraphPass(npc, LabelSourceFiles(g))

\* SourceFileLinker writes WITH_SOURCE edges only, which no later pass of
\* run_enrichment_passes reads.
PassLinkTypes ==
    /\ npc = "link_types_to_source_files"
    /\ GraphPass(npc, g)

\* _parse_source_files hands the manager to JavaSourceParser, whose
\* constructor expects a path and raises; link_types_to_source_files logs
\* the error and raises it again, which ends run_enrichment_passes.
\* PassLinkTypes is the pass with parsers that deliver the metadata.
LinkTypesRaises ==
    /\ npc = "link_types_to_source_files"
    /\ npc' = "raised"
    /\ normLog' = Append(normLog, npc)
    /\ UNCHANGED <<g, relocMap, gReloc, relocRuns, pipeVars, tokVars>>

PassLinkMembers ==
    /\ npc = "link_members_to_source_files"
    /\ GraphPass(npc, g)

\* create_project_node raises ValueError when no directory artifact exists;
\* the scanned graphs always have one at this point.
PassCreateProjectNode ==
    /\ npc = "create_project_node"
    /\ ArtifactPaths(g) # {}
    /\ GraphPass(npc, CreateProjectNode(g))

PassEstablishSourceHierarchy ==
    /\ npc = "establish_source_hierarchy"
    /\ GraphPass(npc, EstablishSourceHierarchy(g))

PassRelocate ==
    /\ npc = "relocate_directory_artifacts"
    /\ \E o \in RelocateDirectoryArtifacts(g, relocMap, ArtifactFiles(g)) :
          /\ g' = o[1]
          /\ relocMap' = o[2]
          /\ gReloc' = o[1]
    /\ relocRuns' = 1
    /\ npc' = AfterPass(npc)
    /\ normLog' = Append(normLog, npc)
    /\ UNCHANGED <<pipeVars, tokVars>>

\* The same normalizer runs the relocation again on the graph it produced.
RelocateAgain ==
    /\ npc = AfterPass("relocate_directory_artifacts")
    /\ relocRuns >= 1
    /\ relocRuns < MaxRelocateRuns
    /\ \E o \in RelocateDirectoryArtifacts(g, relocMap, ArtifactFiles(g)) :
          /\ g' = o[1]
          /\ relocMap' = o[2]
    /\ relocRuns' = relocRuns + 1
    /\ normLog' = Append(normLog, "relocate_directory_artifacts")
    /\ UNCHANGED <<npc, gReloc, pipeVars, tokVars>>

PassRewriteContainment ==
    /\ npc = "rewrite_containment_relationships"
    /\ GraphPass(npc, RewriteContainmentRelationships(g, relocMap))

\* rewrite_requirement_relationships called on the normalizer once the
\* containment is rewritten (run_enrichment_passes never calls it).
PassRewriteRequirements ==
    /\ npc = AfterPass("rewrite_containment_relationships")
    /\ g' = RewriteRequirementRelationships(g, relocMap)
    /\ npc' = "done"
    /\ normLog' = Append(normLog, "rewrite_requirement_relationships")
    /\ UNCHANGED <<relocMap, gReloc, relocRuns, pipeVars, tokVars>>

PassEstablishClassHierarchy ==
    /\ npc = "establish_class_hierarchy"
    /\ GraphPass(npc, EstablishClassHierarchy(g, relocMap))

PassCleanupPackageSemantics ==
    /\ npc = "cleanup_package_semantics"
    /\ GraphPass(npc, CleanupPackageSemantics(g))

PassLinkProjectToArtifacts ==
    /\ npc = "link_project_to_artifacts"
    /\ GraphPass(npc, LinkProjectToArtifacts(g))

PassCreateEntities ==
    /\ npc = "create_entities_and_stable_ids"
    /\ \E r \in CreateEntitiesAndStableIds(g) :
          /\ r[2]
          /\ GraphPass(npc, r[1])

\* A query of the pass fails on the uniqueness constraint: the writes of the
\* queries before it stay, the error leaves run_enrichment_passes.
CreateEntitiesRaises ==
    /\ npc = "create_entities_and_stable_ids"
    /\ \E r \in CreateEntitiesAndStableIds(g) :
          /\ ~r[2]
          /\ g' = r[1]
    /\ npc' = "raised"
    /\ normLog' = Append(normLog, npc)
    /\ UNCHANGED <<relocMap, gReloc, relocRuns, pipeVars, tokVars>>

\* No normalization is under way.
NormIdle ==
    /\ g = Scanned(<<"com", "A">>, NoPath, FALSE, FALSE)
    /\ npc = "off"
    /\ relocMap = EmptyMap
    /\ normLog = <<>>
    /\ gReloc = Scanned(<<"com", "A">>, NoPath, FALSE, FALSE)
    /\ relocRuns = 0

----------------------------------------------------------------------------
(* TokenManager: token counting and chunking.  A text is the sequence of   *)
(* its tokens; a summary is represented by its token count.                *)

\* TokenManager.__init__: int(0.5 * max_context_token_size)
IterativeChunkSize(max_context) == max_context \div 2
\* TokenManager.__init__: int(0.1 * iterative_chunk_size)
IterativeChunkOverlap(max_context) == IterativeChunkSize(max_context) \div 10

\* tokens[a:] and tokens[a:b] of a Python list (0-based, end exclusive)
SliceFrom(tokens, a) == SubSeq(tokens, a + 1, Len(tokens))
Slice(tokens, a, b) == SubSeq(tokens, a + 1, b)

\* "if not tokens: return []" and the set-up of the loop
ChunkTextEnter ==
    /\ tk.pc = "call"
    /\ tk' = [tk EXCEPT !.pc = IF tk.tokens = <<>> THEN "done" ELSE "loop"]
    /\ UNCHANGED <<fold, link, auxVars, pipeVars, normVars>>

\* "if i + chunk_size >= len(tokens): chunks.append(tokens[i:]); break"
ChunkTextTakeRest ==
    /\ tk.pc = "loop"
    /\ tk.i + IterativeChunkSize(tk.max_context) >= Len(tk.tokens)
    /\ tk' = [tk EXCEPT !.chunks = Append(@, SliceFrom(tk.tokens, tk.i)),
                        !.pc = "done"]
    /\ UNCHANGED <<fold, link, auxVars, pipeVars, normVars>>

\* The rest of one iteration: append a full chunk, advance by the stride,
\* and merge a tiny last segment into the chunk just appended.
ChunkTextTakeChunk ==
    /\ tk.pc = "loop"
    /\ LET chunk_size == IterativeChunkSize(tk.max_context)
           stride     == chunk_size - IterativeChunkOverlap(tk.max_context)
           i          == tk.i + stride
           chunks     == Append(tk.chunks, Slice(tk.tokens, tk.i, tk.i + chunk_size))
       IN  /\ tk.i + chunk_size < Len(tk.tokens)
           /\ IF /\ i + chunk_size >= Len(tk.tokens)
                 /\ 2 * (Len(tk.tokens) - i) < chunk_size
              THEN tk' = [tk EXCEPT
                            !.chunks = [chunks EXCEPT ![Len(chunks)] =
                                           SliceFrom(tk.tokens, i - stride)],
                            !.i = i, !.merged = TRUE, !.pc = "done"]
              ELSE tk' = [tk EXCEPT !.chunks = chunks, !.i = i]
    /\ UNCHANGED <<fold, link, auxVars, pipeVars, normVars>>

\* No chunk_text_by_tokens call is under way.
TkIdle == [max_context |-> 0, tokens |-> <<>>, i |-> 0, chunks |-> <<>>,
           merged |-> FALSE, pc |-> "off"]

\* get_token_count of the strings of a list joined by a separator that
\* costs sep tokens
RECURSIVE JoinedCount(_, _)
JoinedCount(counts, sep) ==
    IF counts = <<>> THEN 0
    ELSE IF Len(counts) = 1 THEN counts[1]
    ELSE counts[1] + sep + JoinedCount(Tail(counts), sep)

\* chunk_summaries_by_tokens: the loop over the summaries from position k,
\* with the chunks finished so far and the chunk being filled
RECURSIVE PackSummaries(_, _, _, _, _, _, _)
PackSummaries(summaries, k, chunks, current_strings, current_token_count, chunk_size, sep_token_cost) ==
    IF k > Len(summaries)
    THEN IF current_strings # <<>> THEN Append(chunks, current_strings) ELSE chunks
    ELSE LET token_count == summaries[k]
             cost == token_count + (IF current_strings # <<>> THEN sep_token_cost ELSE 0)
         IN  IF token_count > chunk_size
             THEN PackSummaries(summaries, k + 1,
                      Append(IF current_strings # <<>>
                             THEN Append(chunks, current_strings) ELSE chunks,
                             <<token_count>>),
                      <<>>, 0, chunk_size, sep_token_cost)
             ELSE IF current_token_count + cost > chunk_size
             THEN PackSummaries(summaries, k + 1, Append(chunks, current_strings),
                      <<token_count>>, token_count, chunk_size, sep_token_cost)
             ELSE PackSummaries(summaries, k + 1, chunks,
                      Append(current_strings, token_count),
                      current_token_count + cost, chunk_size, sep_token_cost)

ChunkSummariesByTokens(summaries, max_context, sep_token_cost) ==
    IF summaries = <<>> THEN <<>>
    ELSE PackSummaries(summaries, 1, <<>>, <<>>, 0,
                       IterativeChunkSize(max_context), sep_token_cost)

----------------------------------------------------------------------------
(* NodeSummaryProcessor, step 3 (regenerate): one prompt when the context  *)
(* fits, iterative folding otherwise.  Texts are tagged values: "" is      *)
(* <<>>, the output of the k-th LLM call of the item is <<"llm", k>>.      *)

NodeKinds == {"method", "type", "file", "dir", "project"}
HierarchicalKinds == {"file", "dir", "project"}

EmptyText == <<>>
LlmText(k) == <<"llm", k>>
\* the running summary the folding starts from
SeedSummary(kind) ==
    IF kind = "method" THEN <<"code_analysis">> ELSE <<"seed", kind>>

\* " ".join(...) of the context whose token count decides the branch
FullContext(f) ==
    (IF f.kind = "method" THEN <<f.code_analysis>> ELSE <<>>) \o f.first \o f.second

FitsSinglePrompt(f) == JoinedCount(FullContext(f), f.space_cost) < f.max_context

\* The chunks the folding loops go through, in order.
FoldChunks(f) ==
    ChunkSummariesByTokens(f.first, f.max_context, f.sep_token_cost)
    \o ChunkSummariesByTokens(f.second, f.max_context, f.sep_token_cost)

\* "if not child_summaries: return None", then the choice of the branch
FoldContextCheck ==
    /\ fold.pc = "context"
    /\ fold' = IF fold.kind \in HierarchicalKinds /\ fold.first = <<>>
               THEN [fold EXCEPT !.pc = "done"]
               ELSE IF FitsSinglePrompt(fold)
               THEN [fold EXCEPT !.pc = "single", !.prompt = TRUE]
               ELSE [fold EXCEPT !.pc = "fold", !.oversize = TRUE,
                                 !.chunks = FoldChunks(fold),
                                 !.running = SeedSummary(fold.kind)]
    /\ UNCHANGED <<tk, link, auxVars, pipeVars, normVars>>

\* What llm_client.generate_summary can return on the next call.
LlmOutputs(f) == {EmptyText, LlmText(f.calls + 1)}

\* The single-shot branch: "new_summary = self.llm_client.generate_summary(prompt)"
FoldSinglePrompt ==
    /\ fold.pc = "single"
    /\ \E out \in LlmOutputs(fold) :
          fold' = [fold EXCEPT !.new_summary = out, !.calls = @ + 1,
                               !.empty_seen = @ \/ out = EmptyText,
                               !.pc = "after"]
    /\ UNCHANGED <<tk, link, auxVars, pipeVars, normVars>>

\* One iteration of a folding loop: the LLM call on the next chunk;
\* "if not new_summary: return None".
FoldNextChunk ==
    /\ fold.pc = "fold"
    /\ fold.chunks # <<>>
    /\ \E out \in LlmOutputs(fold) :
          fold' = IF out = EmptyText
                  THEN [fold EXCEPT !.calls = @ + 1, !.empty_seen = TRUE,
                                    !.new_summary = EmptyText, !.pc = "after"]
                  ELSE [fold EXCEPT !.calls = @ + 1, !.running = out,
                                    !.chunks = Tail(@), !.folded = @ + 1]
    /\ UNCHANGED <<tk, link, auxVars, pipeVars, normVars>>

\* "return running_summary" of the _summarize_*_iteratively method
FoldLoopsDone ==
    /\ fold.pc = "fold"
    /\ fold.chunks = <<>>
    /\ fold' = [fold EXCEPT !.new_summary = fold.running, !.pc = "after"]
    /\ UNCHANGED <<tk, link, auxVars, pipeVars, normVars>>

\* "if new_summary: return {status: regenerated, ...}; return None"
FoldResult(new_summary) ==
    IF new_summary # EmptyText
    THEN [status |-> "regenerated", summary |-> new_summary]
    ELSE [status |-> "none", summary |-> EmptyText]

\* get_method_summary and get_type_summary after the branch
FoldReturn ==
    /\ fold.pc = "after"
    /\ fold.kind \notin HierarchicalKinds
    /\ fold' = [fold EXCEPT !.result = FoldResult(fold.new_summary),
                            !.pc = "done"]
    /\ UNCHANGED <<tk, link, auxVars, pipeVars, normVars>>

\* get_hierarchical_summary after the branch: generate_summary(prompt) is
\* called once more, with the prompt of the single-shot branch.
HierarchicalSecondCall ==
    /\ fold.pc = "after"
    /\ fold.kind \in HierarchicalKinds
    /\ fold.prompt
    /\ \E out \in LlmOutputs(fold) :
          fold' = [fold EXCEPT !.new_summary = out, !.calls = @ + 1,
                               !.empty_seen = @ \/ out = EmptyText,
                               !.result = FoldResult(out),
                               !.pc = "done"]
    /\ UNCHANGED <<tk, link, auxVars, pipeVars, normVars>>

\* get_hierarchical_summary after the folding branch: the local name prompt
\* was never assigned, so its use raises UnboundLocalError.
HierarchicalPromptUnbound ==
    /\ fold.pc = "after"
    /\ fold.kind \in HierarchicalKinds
    /\ ~fold.prompt
    /\ fold' = [fold EXCEPT !.pc = "raised"]
    /\ UNCHANGED <<tk, link, auxVars, pipeVars, normVars>>

NoFoldResult == [status |-> "none", summary |-> EmptyText]

\* The regeneration of one item with the given inputs, before its first step.
FoldCall(kind, max_context, code_analysis, first, second, space_cost, sep_token_cost) ==
    [kind |-> kind, max_context |-> max_context, code_analysis |-> code_analysis,
     first |-> first, second |-> second,
     space_cost |-> space_cost, sep_token_cost |-> sep_token_cost,
     pc |-> "context", prompt |-> FALSE, oversize |-> FALSE, chunks |-> <<>>,
     running |-> EmptyText, new_summary |-> EmptyText, calls |-> 0, folded |-> 0,
     empty_seen |-> FALSE, result |-> NoFoldResult]

\* No regeneration is under way.
FoldIdle == [FoldCall("method", 0, 0, <<>>, <<>>, 0, 0) EXCEPT !.pc = "off"]

----------------------------------------------------------------------------
(* SourceFileLinker._enrich_graph_with_types: the WITH_SOURCE write, one   *)
(* query per batch of the parsed metadata.  The metadata list is           *)
(* represented by its length; each file links one type.                    *)

\* _enrich_graph_with_types: batch_size
BatchSize == 1000

\* len(source_metadata[i : i + batch_size])
BatchLen(n, i) == IF n - i < BatchSize THEN n - i ELSE BatchSize

\* The logging before the loop; range(0, len(source_metadata), batch_size)
\* starts at 0.
EnrichEnter ==
    /\ link.pc = "call"
    /\ link' = [link EXCEPT !.pc = "loop", !.i = 0, !.total = 0]
    /\ UNCHANGED <<tk, fold, auxVars, pipeVars, normVars>>

\* One iteration: execute_write_query returns its summary.
EnrichBatchWrite ==
    /\ link.pc = "loop"
    /\ link.i < link.n
    /\ link' = [link EXCEPT !.written = Append(@, link.i),
                            !.total = @ + BatchLen(link.n, link.i),
                            !.i = @ + BatchSize]
    /\ UNCHANGED <<tk, fold, auxVars, pipeVars, normVars>>

\* One iteration: execute_write_query raises; "except Exception" logs the
\* error and the loop goes on with the next batch.
EnrichBatchFails ==
    /\ link.pc = "loop"
    /\ link.i < link.n
    /\ link' = [link EXCEPT !.failed = Append(@, link.i),
                            !.i = @ + BatchSize]
    /\ UNCHANGED <<tk, fold, auxVars, pipeVars, normVars>>

\* "return total_relationships_created"
EnrichReturn ==
    /\ link.pc = "loop"
    /\ link.i >= link.n
    /\ link' = [link EXCEPT !.pc = "done", !.result = link.total]
    /\ UNCHANGED <<tk, fold, auxVars, pipeVars, normVars>>

\* No _enrich_graph_with_types call is under way.
LinkIdle == [n |-> 0, i |-> 0, written |-> <<>>, failed |-> <<>>, total |-> 0,
             result |-> 0, pc |-> "off"]

----------------------------------------------------------------------------
(* TypeSummarizer._get_types_by_inheritance_level and the loop of          *)
(* TypeSummarizer.run, step by step, on an arbitrary inheritance graph.    *)
(* lvl.src are the rows of query_all (the types with a WITH_SOURCE edge),  *)
(* lvl.parents the EXTENDS|IMPLEMENTS edges, also those to types without   *)
(* source.  types_by_level[k + 1] is the list of level k.                  *)

\* [(t)-[:EXTENDS|IMPLEMENTS]->(p) WHERE p.entity_id IN $all_ids | p]
LinkedParents(t, all_ids, parents) == {q \in all_ids : <<t, q>> \in parents}

\* query_level_0: the ids without an edge to a type that has source
Level0Ids(all_ids, parents) == {t \in all_ids : LinkedParents(t, all_ids, parents) = {}}

\* A next-level query that accepts a type as soon as one parent is visited.
NextLevelIds_AnyParent(all_ids, visited_ids, parents) ==
    {t \in all_ids \ visited_ids : LinkedParents(t, all_ids, parents) \cap visited_ids # {}}

\* query_next_level: size(parents) > 0 AND all(p IN parents WHERE visited)
NextLevelIds(all_ids, visited_ids, parents) ==
    {t \in all_ids \ visited_ids : LinkedParents(t, all_ids, parents) # {} /\ LinkedParents(t, all_ids, parents) \subseteq visited_ids}

LvlIdle == [src |-> {}, parents |-> {}, types_by_level |-> <<>>, visited_ids |-> {}, current_level |-> 0, run_level |-> 0, log |-> <<>>, pc |-> "off"]

\* No anchor loop is under way.
AncIdle == [rows |-> {}, unprocessed |-> {}, roots |-> {}, removed |-> <<>>, anchor |-> <<"?">>, pc |-> "off"]

\* No embedding pass is under way.
EmbIdle == [summary |-> <<>>, embedding |-> <<>>, skip |-> 0, page |-> <<>>, reads |-> <<>>, writes |-> <<>>, total |-> 0, pc |-> "off"]

AuxIdle == lvl = LvlIdle /\ anc = AncIdle /\ emb = EmbIdle

\* query_all; "if not all_source_type_ids: return {}" and, in run(),
\* "if not types_by_level: return 0"
LevelsQueryAll ==
    /\ lvl.pc = "call"
    /\ lvl' = [lvl EXCEPT !.pc = IF lvl.src = {} THEN "returned" ELSE "level_0"]
    /\ UNCHANGED <<tk, fold, link, anc, emb, pipeVars, normVars>>

\* query_level_0 and "if result:" (lines 84-94)
LevelsQueryLevel0 ==
    /\ lvl.pc = "level_0"
    /\ \E result \in {Level0Ids(lvl.src, lvl.parents)} :
          lvl' = [lvl EXCEPT !.types_by_level = IF result # {} THEN <<result>> ELSE <<>>,
                             !.visited_ids = result,
                             !.current_level = 0,
                             !.pc = "loop"]
    /\ UNCHANGED <<tk, fold, link, anc, emb, pipeVars, normVars>>

\* One iteration of "while True" that finds a next level (lines 99-130).
LevelsNextLevel ==
    /\ lvl.pc = "loop"
    /\ lvl.current_level + 1 \in DOMAIN lvl.types_by_level
    /\ \E result \in {NextLevelIds(lvl.src, lvl.visited_ids, lvl.parents)} :
          /\ result # {}
          /\ lvl' = [lvl EXCEPT !.types_by_level = Append(@, result),
                                !.visited_ids = @ \cup result,
                                !.current_level = @ + 1]
    /\ UNCHANGED <<tk, fold, link, anc, emb, pipeVars, normVars>>

\* The iteration that breaks: no nodes at the current level (line 100), or
\* an empty result of the query (line 131).  run() goes on with its loop,
\* or returns 0 when no level was found (line 34).
LevelsBreak ==
    /\ lvl.pc = "loop"
    /\ \/ lvl.current_level + 1 \notin DOMAIN lvl.types_by_level
       \/ NextLevelIds(lvl.src, lvl.visited_ids, lvl.parents) = {}
    /\ lvl' = [lvl EXCEPT !.pc = IF lvl.types_by_level = <<>> THEN "returned" ELSE "fetch",
                          !.run_level = 0]
    /\ UNCHANGED <<tk, fold, link, anc, emb, pipeVars, normVars>>

\* run(): _get_context_for_ids(level_ids) of the next level (line 46)
TypeRunFetch ==
    /\ lvl.pc = "fetch"
    /\ lvl.run_level < Len(lvl.types_by_level)
    /\ lvl' = [lvl EXCEPT !.log = Append(@, <<"fetch", lvl.run_level>>), !.pc = "batch"]
    /\ UNCHANGED <<tk, fold, link, anc, emb, pipeVars, normVars>>

\* run(): process_batch(items_to_process) has returned (line 50)
TypeRunBatch ==
    /\ lvl.pc = "batch"
    /\ lvl' = [lvl EXCEPT !.log = Append(@, <<"batch", lvl.run_level>>),
                          !.run_level = @ + 1,
                          !.pc = "fetch"]
    /\ UNCHANGED <<tk, fold, link, anc, emb, pipeVars, normVars>>

\* run(): the loop over the levels is exhausted (line 57)
TypeRunReturn ==
    /\ lvl.pc = "fetch"
    /\ lvl.run_level = Len(lvl.types_by_level)
    /\ lvl' = [lvl EXCEPT !.pc = "returned"]
    /\ UNCHANGED <<tk, fold, link, anc, emb, pipeVars, normVars>>

----------------------------------------------------------------------------
(* The anchor loop of ArtifactDataNormalizer._process_single_directory_    *)
(* artifact (and of PackageDataNormalizer, the same text), step by step.   *)
(* A row of the class-file query is [fqn, path], both sequences of parts.  *)

\* {c['fqn']: c['path'] for c in class_files}: one row per fqn, the one the
\* query returned last.
ClassDicts(rows) ==
    {d \in SUBSET rows : /\ \A r \in rows : \E e \in d : e.fqn = r.fqn
                         /\ \A e1, e2 \in d : e1.fqn = e2.fqn => e1 = e2}

\* max(unprocessed_classes.keys(), key=len): a longest fqn
Anchors(unprocessed) ==
    {c \in unprocessed : \A d \in unprocessed : JoinedLen(d.fqn) <= JoinedLen(c.fqn)}

\* anchor_dir.endswith(package_as_path)
AnchorMatches(c) == IsSuffix(Front(c.fqn), Front(c.path))

\* anchor_dir[:-len(package_as_path)]
ArtifactRootPath(c) == SubSeq(Front(c.path), 1, Len(Front(c.path)) - Len(Front(c.fqn)))

\* A batch that takes only the classes in directories below the root.
ProcessedInBatch_Deeper(unprocessed, root) ==
    {c \in unprocessed : IsPrefix(root, c.path) /\ Len(c.path) > Len(root) + 1}

\* path.startswith(artifact_root_path + "/") or path == artifact_root_path
ProcessedInBatch(unprocessed, root) ==
    {c \in unprocessed : IsPrefix(root, c.path)}

\* The removals counted per fqn.
CountRemoved(removed, deleted) ==
    [f \in DOMAIN removed |-> IF \E c \in deleted : c.fqn = f THEN removed[f] + 1 ELSE removed[f]]

\* The query, "if not class_files: ... return", and the dict.
AnchorEnter ==
    /\ anc.pc = "call"
    /\ \E d \in ClassDicts(anc.rows) :
          anc' = [anc EXCEPT !.unprocessed = d,
                             !.removed = [f \in {c.fqn : c \in d} |-> 0],
                             !.pc = IF anc.rows = {} THEN "done" ELSE "loop"]
    /\ UNCHANGED <<tk, fold, link, lvl, emb, pipeVars, normVars>>

\* An iteration whose anchor does not lie in its package's directory:
\* "del unprocessed_classes[anchor_fqn]; continue"
AnchorMismatch ==
    /\ anc.pc = "loop"
    /\ \E c \in Anchors(anc.unprocessed) :
          /\ ~AnchorMatches(c)
          /\ anc' = [anc EXCEPT !.unprocessed = @ \ {c},
                                !.removed = CountRemoved(@, {c}),
                                !.anchor = c.fqn]
    /\ UNCHANGED <<tk, fold, link, lvl, emb, pipeVars, normVars>>

\* An iteration that finds a root and deletes the classes under it.
AnchorRoot ==
    /\ anc.pc = "loop"
    /\ \E c \in Anchors(anc.unprocessed) :
          /\ AnchorMatches(c)
          /\ \E processed_in_batch \in {ProcessedInBatch(anc.unprocessed, ArtifactRootPath(c))} :
                anc' = [anc EXCEPT !.unprocessed = @ \ processed_in_batch,
                                   !.removed = CountRemoved(@, processed_in_batch),
                                   !.roots = @ \cup {ArtifactRootPath(c)},
                                   !.anchor = c.fqn]
    /\ UNCHANGED <<tk, fold, link, lvl, emb, pipeVars, normVars>>

\* "while unprocessed_classes:" is false
AnchorLoopExit ==
    /\ anc.pc = "loop"
    /\ anc.unprocessed = {}
    /\ anc' = [anc EXCEPT !.pc = "done"]
    /\ UNCHANGED <<tk, fold, link, lvl, emb, pipeVars, normVars>>

----------------------------------------------------------------------------
(* EntityEmbedder.add_entity_labels_and_embeddings, step by step.          *)
(* emb.summary[i] is the summary of the i-th row of the query on the       *)
(* entities with a summary (the store scans them in one order throughout), *)
(* emb.embedding[i] that node's summaryEmbedding (0: none).                *)

EmbedBatchSize == 500

\* embedding_client.generate_embeddings: one vector per text, in order
GenerateEmbeddings(texts) == [j \in DOMAIN texts |-> texts[j] + 100]

\* A loop that advances by two pages.
NextSkip_TwoPages(skip) == skip + 2 * EmbedBatchSize

\* skip += batch_size
NextSkip(skip) == skip + EmbedBatchSize

\* SKIP $skip LIMIT $limit: the row numbers of the page
PageRows(n, skip) ==
    IF skip >= n THEN <<>>
    ELSE [j \in 1..(IF n - skip < EmbedBatchSize THEN n - skip ELSE EmbedBatchSize) |-> skip + j]

EmbedEnter ==
    /\ emb.pc = "call"
    /\ emb' = [emb EXCEPT !.skip = 0, !.total = 0, !.pc = "query"]
    /\ UNCHANGED <<tk, fold, link, lvl, anc, pipeVars, normVars>>

\* The read query returns a page with rows.
EmbedFetchPage ==
    /\ emb.pc = "query"
    /\ \E nodes_to_embed \in {PageRows(Len(emb.summary), emb.skip)} :
          /\ nodes_to_embed # <<>>
          /\ emb' = [emb EXCEPT !.page = nodes_to_embed,
                                !.reads = Append(@, Len(nodes_to_embed)),
                                !.skip = NextSkip(@),
                                !.pc = "embed"]
    /\ UNCHANGED <<tk, fold, link, lvl, anc, pipeVars, normVars>>

\* "if not nodes_to_embed: break"
EmbedEmptyPage ==
    /\ emb.pc = "query"
    /\ PageRows(Len(emb.summary), emb.skip) = <<>>
    /\ emb' = [emb EXCEPT !.page = <<>>, !.reads = Append(@, 0),
                          !.skip = NextSkip(@), !.pc = "index"]
    /\ UNCHANGED <<tk, fold, link, lvl, anc, pipeVars, normVars>>

\* generate_embeddings, zip(node_ids, embeddings) and the bulk write (the
\* rows of a page are consecutive, so row i is item i - page[1] + 1).
EmbedWritePage ==
    /\ emb.pc = "embed"
    /\ \E embeddings \in {GenerateEmbeddings([j \in DOMAIN emb.page |-> emb.summary[emb.page[j]]])} :
          emb' = [emb EXCEPT !.embedding = [i \in DOMAIN @ |->
                                  IF i >= emb.page[1] /\ i <= emb.page[Len(emb.page)]
                                  THEN embeddings[i - emb.page[1] + 1] ELSE @[i]],
                             !.writes = Append(@, Len(emb.page)),
                             !.total = @ + Len(emb.page),
                             !.pc = "query"]
    /\ UNCHANGED <<tk, fold, link, lvl, anc, pipeVars, normVars>>

\* generate_embeddings or the write query raises: the pass raises.
EmbedPageRaises ==
    /\ emb.pc = "embed"
    /\ emb' = [emb EXCEPT !.pc = "raised"]
    /\ UNCHANGED <<tk, fold, link, lvl, anc, pipeVars, normVars>>

\* CREATE VECTOR INDEX ... IF NOT EXISTS
EmbedCreateIndex ==
    /\ emb.pc = "index"
    /\ emb' = [emb EXCEPT !.pc = "done"]
    /\ UNCHANGED <<tk, fold, link, lvl, anc, pipeVars, normVars>>

TokIdle == tk = TkIdle /\ fold = FoldIdle /\ link = LinkIdle /\ AuxIdle

----------------------------------------------------------------------------
(* The graph fixture: entity ids of the nodes the passes summarize.        *)

Methods  == {"m1", "m2"}
Types    == {"t1", "t2", "t3"}
Files    == {"f1", "f2"}
Dirs     == {"d1", "d2"}
Projects == {"p"}
Nodes    == Methods \cup Types \cup Files \cup Dirs \cup Projects

\* (t)-[:DECLARES]->(m)
Declares == {<<"t1", "m1">>, <<"t2", "m2">>}
\* (t)-[:EXTENDS|IMPLEMENTS]->(p)
Extends == {<<"t3", "t1">>}
\* (x)-[:WITH_SOURCE]->(sf)
WithSource == {<<"t1", "f1">>, <<"t2", "f2">>, <<"t3", "f1">>,
               <<"m1", "f1">>, <<"m2", "f2">>}
\* (parent)-[:CONTAINS_SOURCE]->(child)
ContainsSource == {<<"p", "d1">>, <<"d1", "d2">>, <<"d1", "f2">>, <<"d2", "f1">>}
\* size(split(d.absolute_path, '/'))
PathDepth(d) == IF d = "d1" THEN 3 ELSE 4

----------------------------------------------------------------------------
(* Cache records and the cache map.                                        *)

NoEntry    == [present |-> FALSE, summary |-> 0, code_analysis |-> 0, code_hash |-> 0]
EmptyEntry == [present |-> TRUE,  summary |-> 0, code_analysis |-> 0, code_hash |-> 0]

\* pad counts the entries whose ids are not nodes of the fixture graph.
EmptyCache == [ents |-> [n \in Nodes |-> NoEntry], pad |-> 0]

CacheLen(c) == Cardinality({n \in Nodes : c.ents[n].present}) + c.pad

----------------------------------------------------------------------------
(* Files.  A file is absent, unparseable (truncated or garbage), or holds  *)
(* the JSON text of a map: a set of <<id, fields>> pairs, fields being the *)
(* set of <<key, value>> pairs of the record.                              *)

Absent  == [kind |-> "absent",  pairs |-> {}, pad |-> 0]
Corrupt == [kind |-> "corrupt", pairs |-> {}, pad |-> 0]

Fields(e) ==
    {<<"summary", e.summary>> : x \in {1} \cap (IF e.summary # 0 THEN {1} ELSE {})}
    \cup {<<"code_analysis", e.code_analysis>> : x \in {1} \cap (IF e.code_analysis # 0 THEN {1} ELSE {})}
    \cup {<<"code_hash", e.code_hash>> : x \in {1} \cap (IF e.code_hash # 0 THEN {1} ELSE {})}

JsonDump(c) ==
    [kind  |-> "json",
     pairs |-> {<<n, Fields(c.ents[n])>> : n \in {k \in Nodes : c.ents[k].present}},
     pad   |-> c.pad]

FieldOf(fs, key) ==
    IF \E kv \in fs : kv[1] = key
    THEN (CHOOSE kv \in fs : kv[1] = key)[2]
    ELSE 0

\* A loader that reads the summaries only.
JsonLoad_SummaryOnly(f) ==
    [ents |-> [n \in Nodes |->
                 IF \E p \in f.pairs : p[1] = n
                 THEN LET fs == (CHOOSE p \in f.pairs : p[1] = n)[2]
                      IN  [NoEntry EXCEPT !.present = TRUE,
                                          !.summary = FieldOf(fs, "summary")]
                 ELSE NoEntry],
     pad  |-> f.pad]

JsonLoad(f) ==
    [ents |-> [n \in Nodes |->
                 IF \E p \in f.pairs : p[1] = n
                 THEN LET fs == (CHOOSE p \in f.pairs : p[1] = n)[2]
                      IN  [present       |-> TRUE,
                           summary       |-> FieldOf(fs, "summary"),
                           code_analysis |-> FieldOf(fs, "code_analysis"),
                           code_hash     |-> FieldOf(fs, "code_hash")]
                 ELSE NoEntry],
     pad  |-> f.pad]

JsonLen(f) == Cardinality(f.pairs) + f.pad

NoFiles == [main |-> Absent, tmp |-> Absent, bak1 |-> Absent, bak2 |-> Absent]

----------------------------------------------------------------------------
(* SummaryCacheManager.load                                                *)

LoadResult(main) ==
    IF main.kind = "json" THEN JsonLoad(main) ELSE EmptyCache

----------------------------------------------------------------------------
(* SummaryCacheManager.save, one action per file operation.                *)

SanityFloor == 100
SanityPct   == 95

\* new_cache_size < old_cache_size * 0.95 and old_cache_size > 100
SanityFails_NoFloor(old, new) == new * 100 < old * SanityPct
SanityFails(old, new) ==
    new * 100 < old * SanityPct /\ old > SanityFloor

InSave == spc \in {"open", "dump", "sanity", "rot_bak2", "rot_bak1", "rot_main", "move_tmp"}

\* open(self.tmp_cache_file, 'w'): the file is created or truncated.
SaveOpenTmp ==
    /\ spc = "open"
    /\ disk' = [disk EXCEPT !.tmp = Corrupt]
    /\ spc' = "dump"
    /\ UNCHANGED <<cache, preSave, saveOutcome, loaded, opc, runVars>>

\* json.dump(self.cache, f, indent=2) and close.
SaveDumpTmp ==
    /\ spc = "dump"
    /\ disk' = [disk EXCEPT !.tmp = JsonDump(cache)]
    /\ spc' = "sanity"
    /\ UNCHANGED <<cache, preSave, saveOutcome, loaded, opc, runVars>>

\* The write raises IOError: caught in save(), promotion is never attempted.
SaveDumpFails ==
    /\ spc = "dump"
    /\ spc' = "done"
    /\ saveOutcome' = "write_error"
    /\ UNCHANGED <<disk, cache, preSave, loaded, opc, runVars>>

\* _promote_tmp_cache up to the call of _rotate_backups.
PromoteSanity ==
    /\ spc = "sanity"
    /\ IF /\ disk.main.kind = "json"
          /\ SanityFails(JsonLen(disk.main), CacheLen(cache))
       THEN /\ spc' = "done"
            /\ saveOutcome' = "aborted"
       ELSE /\ spc' = "rot_bak2"
            /\ UNCHANGED saveOutcome
    /\ UNCHANGED <<disk, cache, preSave, loaded, opc, runVars>>

RotateRemoveBak2 ==
    /\ spc = "rot_bak2"
    /\ disk' = [disk EXCEPT !.bak2 = Absent]
    /\ spc' = "rot_bak1"
    /\ UNCHANGED <<cache, preSave, saveOutcome, loaded, opc, runVars>>

\* The rotation without "shutil.move(self.bak1_file, self.bak2_file)".
RotateMoveBak1_Skip ==
    /\ spc = "rot_bak1"
    /\ spc' = "rot_main"
    /\ UNCHANGED <<disk, cache, preSave, saveOutcome, loaded, opc, runVars>>

RotateMoveBak1 ==
    /\ spc = "rot_bak1"
    /\ disk' = IF disk.bak1.kind # "absent"
               THEN [disk EXCEPT !.bak2 = disk.bak1, !.bak1 = Absent]
               ELSE disk
    /\ spc' = "rot_main"
    /\ UNCHANGED <<cache, preSave, saveOutcome, loaded, opc, runVars>>

\* A rotation that removes the main file instead of moving it to .bak.1.
RotateMoveMain_Remove ==
    /\ spc = "rot_main"
    /\ disk' = [disk EXCEPT !.main = Absent]
    /\ spc' = "move_tmp"
    /\ UNCHANGED <<cache, preSave, saveOutcome, loaded, opc, runVars>>

RotateMoveMain ==
    /\ spc = "rot_main"
    /\ disk' = IF disk.main.kind # "absent"
               THEN [disk EXCEPT !.bak1 = disk.main, !.main = Absent]
               ELSE disk
    /\ spc' = "move_tmp"
    /\ UNCHANGED <<cache, preSave, saveOutcome, loaded, opc, runVars>>

PromoteMoveTmp ==
    /\ spc = "move_tmp"
    /\ disk' = [disk EXCEPT !.main = disk.tmp, !.tmp = Absent]
    /\ spc' = "done"
    /\ saveOutcome' = "promoted"
    /\ UNCHANGED <<cache, preSave, loaded, opc, runVars>>

SaveStep ==
    \/ SaveOpenTmp
    \/ SaveDumpTmp
    \/ SaveDumpFails
    \/ PromoteSanity
    \/ RotateRemoveBak2
    \/ RotateMoveBak1
    \/ RotateMoveMain
    \/ PromoteMoveTmp

----------------------------------------------------------------------------
(* NodeSummaryProcessor: the waterfall DB -> cache -> LLM.                 *)

\* hashlib.md5(source_code): an injective image of the source text.
Md5(s) == s + 10

NoResult == [status |-> "none", summary |-> 0, code_analysis |-> 0, code_hash |-> 0]

\* SummaryCacheManager.was_dependency_changed
WasDependencyChanged_First(ids) ==
    ids # {} /\ rs[CHOOSE d \in ids : TRUE] = "changed"
WasDependencyChanged(ids) ==
    \E d \in ids : rs[d] = "changed"

\* SummaryCacheManager.get_node_cache(id).get("summary") for each id, empties dropped
CachedSummaries(ids) == {cache.ents[d].summary : d \in ids} \ {0}

\* get_method_code_analysis up to the call of _analyze_code_iteratively
GetMethodCodeAnalysis(n) ==
    LET new_hash == Md5(src[n])
    IN  IF db[n].code_analysis # 0 /\ db[n].code_hash = new_hash
        THEN [NoResult EXCEPT !.status = "unchanged",
                              !.code_analysis = db[n].code_analysis,
                              !.code_hash = new_hash]
        ELSE IF cache.ents[n].code_hash = new_hash /\ cache.ents[n].code_analysis # 0
        THEN [NoResult EXCEPT !.status = "restored",
                              !.code_analysis = cache.ents[n].code_analysis,
                              !.code_hash = new_hash]
        ELSE [NoResult EXCEPT !.status = "llm", !.code_hash = new_hash]

\* get_method_summary up to the LLM call; the staleness key is the method's own id
GetMethodSummary(n) ==
    LET is_stale == WasDependencyChanged({n})
    IN  IF db[n].summary # 0 /\ ~is_stale
        THEN [NoResult EXCEPT !.status = "unchanged", !.summary = db[n].summary]
        ELSE IF cache.ents[n].summary # 0 /\ ~is_stale
        THEN [NoResult EXCEPT !.status = "restored", !.summary = cache.ents[n].summary]
        ELSE IF cache.ents[n].code_analysis = 0
        THEN NoResult
        ELSE [NoResult EXCEPT !.status = "llm"]

\* get_type_summary up to the LLM call
GetTypeSummary(n, dependency_ids) ==
    LET is_stale == WasDependencyChanged(dependency_ids)
    IN  IF db[n].summary # 0 /\ ~is_stale
        THEN [NoResult EXCEPT !.status = "unchanged", !.summary = db[n].summary]
        ELSE IF cache.ents[n].summary # 0 /\ ~is_stale
        THEN [NoResult EXCEPT !.status = "restored", !.summary = cache.ents[n].summary]
        ELSE [NoResult EXCEPT !.status = "llm"]

\* get_hierarchical_summary up to the first LLM call
GetHierarchicalSummary(n, dependency_ids) ==
    LET is_stale == WasDependencyChanged(dependency_ids)
    IN  IF db[n].summary # 0 /\ ~is_stale
        THEN [NoResult EXCEPT !.status = "unchanged", !.summary = db[n].summary]
        ELSE IF cache.ents[n].summary # 0 /\ ~is_stale
        THEN [NoResult EXCEPT !.status = "restored", !.summary = cache.ents[n].summary]
        ELSE IF CachedSummaries(dependency_ids) = {}
        THEN NoResult
        ELSE [NoResult EXCEPT !.status = "llm"]

\* "if new_analysis:" / "if new_summary:" -- the result built from the LLM output
RegenResult_NoCheck(pass, pending_res, out) ==
    IF pass = "analyzer"
    THEN [pending_res EXCEPT !.status = "regenerated", !.code_analysis = out]
    ELSE [pending_res EXCEPT !.status = "regenerated", !.summary = out]
RegenResult(pass, pending_res, out) ==
    IF out = 0
    THEN NoResult
    ELSE IF pass = "analyzer"
         THEN [pending_res EXCEPT !.status = "regenerated", !.code_analysis = out]
         ELSE [pending_res EXCEPT !.status = "regenerated", !.summary = out]

----------------------------------------------------------------------------
(* The summarizer passes: which items a pass processes and what each item  *)
(* depends on (the rows of the pass's read query).                         *)

SummarizerPasses == {"analyzer", "msum", "type", "file", "dir", "project"}
HierarchicalPasses == {"file", "dir", "project"}

SourceTypes == {t \in Types : \E f \in Files : <<t, f>> \in WithSource}
SourceParents(t) == {q \in SourceTypes : <<t, q>> \in Extends}

\* TypeSummarizer._get_types_by_inheritance_level: the levels, lowest first
RECURSIVE LevelsFrom(_, _)
LevelsFrom(levels, visited) ==
    LET next_level == {t \in SourceTypes \ visited :
                          /\ SourceParents(t) # {}
                          /\ SourceParents(t) \subseteq visited}
    IN  IF next_level = {}
        THEN levels
        ELSE LevelsFrom(Append(levels, next_level), visited \cup next_level)

TypesByLevel ==
    LET level_0 == {t \in SourceTypes : SourceParents(t) = {}}
    IN  IF level_0 = {} THEN <<>> ELSE LevelsFrom(<<level_0>>, level_0)

\* The rows returned by the read query of the pass (its ids).
PassItems(pass, lv) ==
    CASE pass = "analyzer" -> {m \in Methods : \E f \in Files : <<m, f>> \in WithSource}
      [] pass = "msum"     -> {m \in Methods : db[m].code_analysis # 0}
      [] pass = "type"     -> IF lv \in 1..Len(TypesByLevel) THEN TypesByLevel[lv] ELSE {}
      [] pass = "file"     -> Files
      [] pass = "dir"      -> Dirs
      [] pass = "project"  -> Projects
      [] OTHER             -> {}

\* The ids the item's staleness check reads.
Deps(pass, n) ==
    CASE pass = "msum"    -> {n}
      [] pass = "type"    -> {q \in Types : <<n, q>> \in Extends}
                             \cup {m \in Methods : <<n, m>> \in Declares}
      [] pass = "file"    -> {t \in Types : <<t, n>> \in WithSource /\ db[t].summary # 0}
      [] pass = "dir"     -> {c \in Files \cup Dirs : <<n, c>> \in ContainsSource}
      [] pass = "project" -> {c \in Nodes : <<n, c>> \in ContainsSource}
      [] OTHER            -> {}

\* _get_processor_result of the pass
ProcessorResult(pass, n) ==
    CASE pass = "analyzer" -> GetMethodCodeAnalysis(n)
      [] pass = "msum"     -> GetMethodSummary(n)
      [] pass = "type"     -> GetTypeSummary(n, Deps(pass, n))
      [] OTHER             -> GetHierarchicalSummary(n, Deps(pass, n))

PassOrder == <<"analyzer", "msum", "type", "file", "dir", "project", "embed">>

NextPass_Skip(pass) ==
    IF pass = "analyzer" THEN "type"
    ELSE LET i == CHOOSE k \in 1..Len(PassOrder) : PassOrder[k] = pass
         IN  IF i < Len(PassOrder) THEN PassOrder[i + 1] ELSE "finally"
NextPass(pass) ==
    LET i == CHOOSE k \in 1..Len(PassOrder) : PassOrder[k] = pass
    IN  IF i < Len(PassOrder) THEN PassOrder[i + 1] ELSE "finally"

\* try ... finally: where control goes when a pass raises
OnException_Propagate == "raised"
OnException == "finally"

----------------------------------------------------------------------------
(* Variable groups and bounds of the pipeline model.                       *)

MaxRuns   == 2
MaxFaults == 1
MaxEdits  == 1
\* BaseSummarizer.__init__: num_workers
NumWorkers == 8

fileVars  == <<disk, spc, preSave, saveOutcome, loaded>>
srcVars   == <<src, edited, pending, prevComplete, runNo, sameProc, normVars, tokVars>>
envVars   == <<srcVars, failedIn>>
faultVars == <<faults, runFaults, llmFailed>>
passVars  == <<bpc, level, batch, bpass>>
workVars  == <<wpc, wres>>
statVars  == <<astat, sstat>>
obsVars   == <<seenStale, wrote, crossRead, branch, passLog, runWritten, embWritten>>
snapVars  == <<cache0, rs0, written, nWrites>>

Fault ==
    /\ faults < MaxFaults
    /\ faults' = faults + 1
    /\ runFaults' = runFaults + 1

SetStat(n, st) ==
    IF opc = "analyzer"
    THEN astat' = [astat EXCEPT ![n] = st] /\ UNCHANGED sstat
    ELSE sstat' = [sstat EXCEPT ![n] = st] /\ UNCHANGED astat

StatOf(pass, n) == IF pass = "analyzer" THEN astat[n] ELSE sstat[n]

IdleWorkers == [n \in Nodes |-> "idle"]
NoResults   == [n \in Nodes |-> NoResult]

----------------------------------------------------------------------------
(* The worker of one item: BaseSummarizer._process_and_handle_item.        *)

Running == {n \in batch : wpc[n] \notin {"ready", "done", "failed"}}

\* The condition of waterfall branch 1 as the processor method tests it.
DbFresh(pass, n) ==
    IF pass = "analyzer"
    THEN db[n].code_analysis # 0 /\ db[n].code_hash = Md5(src[n])
    ELSE db[n].summary # 0 /\ ~(\E d \in Deps(pass, n) : rs[d] = "changed")

\* The condition of waterfall branch 2 as the processor method tests it.
CacheMatches(pass, n) ==
    IF pass = "analyzer"
    THEN cache.ents[n].code_hash = Md5(src[n]) /\ cache.ents[n].code_analysis # 0
    ELSE cache.ents[n].summary # 0 /\ ~(\E d \in Deps(pass, n) : rs[d] = "changed")

\* _get_processor_result up to the LLM call: the waterfall decision.
Decide(n) ==
    /\ opc \in SummarizerPasses
    /\ bpc = "run"
    /\ wpc[n] = "ready"
    /\ Cardinality(Running) < NumWorkers
    /\ LET deps == Deps(opc, n)
           r    == ProcessorResult(opc, n)
       IN  /\ wres' = [wres EXCEPT ![n] = r]
           /\ wpc' = [wpc EXCEPT ![n] =
                        CASE r.status = "llm"  -> "llm"
                          [] r.status = "none" -> "done"
                          [] OTHER             -> "uc_check"]
           /\ IF r.status = "none" THEN SetStat(n, "skipped") ELSE UNCHANGED statVars
           /\ seenStale' = [seenStale EXCEPT ![n] = \E d \in deps : rs[d] = "changed"]
           /\ crossRead' = crossRead \cup {<<n, d>> : d \in (deps \cap wrote) \ {n}}
           /\ branch' = [branch EXCEPT ![n] =
                           IF DbFresh(opc, n) THEN "db"
                           ELSE IF CacheMatches(opc, n) THEN "cache" ELSE "gen"]
    /\ UNCHANGED <<fileVars, envVars, faultVars, passVars, snapVars,
                   cache, opc, err, db, rs, saveCount, wrote, passLog, runWritten, embWritten>>

\* llm_client.generate_summary returns text.  get_hierarchical_summary calls
\* it twice (the result of the first call is overwritten by the second).
LlmReturns(n) ==
    /\ opc \in SummarizerPasses
    /\ wpc[n] \in {"llm", "llm2"}
    /\ IF wpc[n] = "llm" /\ opc \in HierarchicalPasses
       THEN /\ wpc' = [wpc EXCEPT ![n] = "llm2"]
            /\ UNCHANGED wres
       ELSE /\ wres' = [wres EXCEPT ![n] = RegenResult(opc, wres[n], runNo)]
            /\ wpc' = [wpc EXCEPT ![n] = "uc_check"]
    /\ UNCHANGED <<fileVars, envVars, faultVars, passVars, snapVars, statVars, obsVars,
                   cache, opc, err, db, rs, saveCount>>

\* llm_client.generate_summary returns "" (request failed and was logged).
LlmEmpty(n) ==
    /\ opc \in SummarizerPasses
    /\ wpc[n] \in {"llm", "llm2"}
    /\ Fault
    /\ IF wpc[n] = "llm" /\ opc \in HierarchicalPasses
       THEN /\ wpc' = [wpc EXCEPT ![n] = "llm2"]
            /\ UNCHANGED <<wres, statVars, llmFailed, failedIn>>
       ELSE LET r == RegenResult(opc, wres[n], 0)
            IN  /\ wres' = [wres EXCEPT ![n] = r]
                /\ llmFailed' = llmFailed \cup {n}
                /\ failedIn' = [failedIn EXCEPT ![n] = runNo]
                /\ IF r.status = "none"
                   THEN wpc' = [wpc EXCEPT ![n] = "done"] /\ SetStat(n, "skipped")
                   ELSE wpc' = [wpc EXCEPT ![n] = "uc_check"] /\ UNCHANGED statVars
    /\ UNCHANGED <<fileVars, srcVars, passVars, snapVars, obsVars,
                   cache, opc, err, db, rs, saveCount>>

\* llm_client.generate_summary raises: the exception ends the item's future.
LlmRaises(n) ==
    /\ opc \in SummarizerPasses
    /\ wpc[n] \in {"llm", "llm2"}
    /\ Fault
    /\ llmFailed' = llmFailed \cup {n}
    /\ failedIn' = [failedIn EXCEPT ![n] = runNo]
    /\ wpc' = [wpc EXCEPT ![n] = "failed"]
    /\ wres' = [wres EXCEPT ![n] = NoResult]
    /\ SetStat(n, "failed")
    /\ UNCHANGED <<fileVars, srcVars, passVars, snapVars, obsVars,
                   cache, opc, err, db, rs, saveCount>>

\* update_node_cache: "if node_id not in self.cache"
UcCheck(n) ==
    /\ wpc[n] = "uc_check"
    /\ wpc' = [wpc EXCEPT ![n] = IF cache.ents[n].present THEN "uc_update" ELSE "uc_insert"]
    /\ UNCHANGED <<fileVars, envVars, faultVars, passVars, snapVars, statVars, obsVars,
                   cache, opc, err, db, rs, saveCount, wres>>

\* update_node_cache: "self.cache[node_id] = {}"
UcInsert(n) ==
    /\ wpc[n] = "uc_insert"
    /\ cache' = [cache EXCEPT !.ents[n] = EmptyEntry]
    /\ wpc' = [wpc EXCEPT ![n] = "uc_update"]
    /\ wrote' = wrote \cup {n}
    /\ UNCHANGED <<fileVars, envVars, faultVars, passVars, snapVars, statVars,
                   opc, err, db, rs, saveCount, wres, seenStale, crossRead,
                   branch, passLog, runWritten, embWritten>>

\* dict.update with the keys the result carries
UpdatedEntry_Keep(e, r) == [e EXCEPT !.present = TRUE]
UpdatedEntry(e, r) ==
    [present       |-> TRUE,
     summary       |-> IF r.summary # 0 THEN r.summary ELSE e.summary,
     code_analysis |-> IF r.code_analysis # 0 THEN r.code_analysis ELSE e.code_analysis,
     code_hash     |-> IF r.code_hash # 0 THEN r.code_hash ELSE e.code_hash]

\* update_node_cache: "self.cache[node_id].update(data)"; an unchanged or
\* restored item is finished after it.
UcUpdate(n) ==
    /\ wpc[n] = "uc_update"
    /\ cache' = [cache EXCEPT !.ents[n] = UpdatedEntry(cache.ents[n], wres[n])]
    /\ wrote' = wrote \cup {n}
    /\ IF wres[n].status = "regenerated"
       THEN wpc' = [wpc EXCEPT ![n] = "rs_check"] /\ UNCHANGED statVars
       ELSE wpc' = [wpc EXCEPT ![n] = "done"] /\ SetStat(n, wres[n].status)
    /\ UNCHANGED <<fileVars, envVars, faultVars, passVars, snapVars,
                   opc, err, db, rs, saveCount, wres, seenStale, crossRead,
                   branch, passLog, runWritten, embWritten>>

\* set_runtime_status: "if node_id not in self.runtime_status"
RsCheck(n) ==
    /\ wpc[n] = "rs_check"
    /\ wpc' = [wpc EXCEPT ![n] = IF rs[n] = "none" THEN "rs_insert" ELSE "rs_set"]
    /\ UNCHANGED <<fileVars, envVars, faultVars, passVars, snapVars, statVars, obsVars,
                   cache, opc, err, db, rs, saveCount, wres>>

\* set_runtime_status: "self.runtime_status[node_id] = {}"
RsInsert(n) ==
    /\ wpc[n] = "rs_insert"
    /\ rs' = [rs EXCEPT ![n] = "empty"]
    /\ wpc' = [wpc EXCEPT ![n] = "rs_set"]
    /\ wrote' = wrote \cup {n}
    /\ UNCHANGED <<fileVars, envVars, faultVars, passVars, snapVars, statVars,
                   cache, opc, err, db, saveCount, wres, seenStale, crossRead,
                   branch, passLog, runWritten, embWritten>>

\* set_runtime_status: "self.runtime_status[node_id]['changed'] = True"
RsSet(n) ==
    /\ wpc[n] = "rs_set"
    /\ rs' = [rs EXCEPT ![n] = "changed"]
    /\ wpc' = [wpc EXCEPT ![n] = "done"]
    /\ wrote' = wrote \cup {n}
    /\ SetStat(n, "regenerated")
    /\ UNCHANGED <<fileVars, envVars, faultVars, passVars, snapVars,
                   cache, opc, err, db, saveCount, wres, seenStale, crossRead,
                   branch, passLog, runWritten, embWritten>>

Worker(n) ==
    \/ Decide(n)
    \/ LlmReturns(n)
    \/ LlmEmpty(n)
    \/ LlmRaises(n)
    \/ UcCheck(n)
    \/ UcInsert(n)
    \/ UcUpdate(n)
    \/ RsCheck(n)
    \/ RsInsert(n)
    \/ RsSet(n)

----------------------------------------------------------------------------
(* BaseSummarizer.process_batch and the run() of each pass (main thread).  *)

\* Where run() continues after a batch: the next inheritance level of the
\* TypeSummarizer, or the next pass of the orchestrator.
Advance ==
    IF opc = "type" /\ level < Len(TypesByLevel)
    THEN /\ level' = level + 1
         /\ UNCHANGED opc
    ELSE /\ level' = 1
         /\ opc' = NextPass(opc)

\* The log of passes after pass p has issued a query.
Logged(p) ==
    IF passLog # <<>> /\ passLog[Len(passLog)] = p THEN passLog ELSE Append(passLog, p)

\* The read query of the pass (of the level, for types) and the submission
\* of its rows to the executor.
PassQuery ==
    /\ opc \in SummarizerPasses
    /\ bpc = "query"
    /\ LET items == PassItems(opc, level)
       IN  IF items = {}
           THEN /\ Advance
                /\ UNCHANGED <<bpc, batch, bpass, workVars, snapVars, wrote, llmFailed, branch>>
           ELSE /\ batch' = items
                /\ bpass' = opc
                /\ bpc' = "run"
                /\ wpc' = [n \in Nodes |-> IF n \in items THEN "ready" ELSE "idle"]
                /\ wres' = NoResults
                /\ cache0' = cache
                /\ rs0' = rs
                /\ written' = {}
                /\ nWrites' = 0
                /\ wrote' = {}
                /\ llmFailed' = {}
                /\ branch' = [n \in Nodes |-> "none"]
                /\ UNCHANGED <<opc, level>>
    /\ passLog' = Logged(opc)
    /\ UNCHANGED <<fileVars, envVars, faults, runFaults, statVars,
                   cache, err, db, rs, saveCount, seenStale, crossRead, runWritten, embWritten>>

\* execute_read_query raises: the pass raises.
QueryRaises ==
    /\ opc \in SummarizerPasses
    /\ bpc = "query"
    /\ Fault
    /\ UNCHANGED llmFailed
    /\ err' = TRUE
    /\ opc' = OnException
    /\ passLog' = Logged(opc)
    /\ UNCHANGED <<fileVars, envVars, passVars, workVars, statVars, snapVars,
                   cache, db, rs, saveCount, seenStale, wrote, crossRead, branch,
                   runWritten, embWritten>>

BatchDone ==
    /\ opc \in SummarizerPasses
    /\ bpc = "run"
    /\ \A n \in batch : wpc[n] \in {"done", "failed"}

\* The list "updates": the results _handle_result returned.
Updates_RegeneratedOnly == {n \in batch : wpc[n] = "done" /\ wres[n].status = "regenerated"}
Updates == {n \in batch : wpc[n] = "done" /\ wres[n].status \in {"regenerated", "restored"}}

\* The update query of the pass applied to one row.
Applied(pass, node, r) ==
    IF pass = "analyzer"
    THEN [node EXCEPT !.code_analysis = r.code_analysis, !.code_hash = r.code_hash]
    ELSE [node EXCEPT !.summary = r.summary]

\* "if not updates: return 0"
BatchNoUpdates ==
    /\ BatchDone
    /\ Updates = {}
    /\ Advance
    /\ bpc' = "query"
    /\ wpc' = IdleWorkers
    /\ wres' = NoResults
    /\ UNCHANGED <<fileVars, envVars, faultVars, statVars, obsVars, snapVars,
                   cache, err, db, rs, saveCount, batch, bpass>>

\* execute_write_query(update_query, {"updates": updates})
BatchWrite ==
    /\ BatchDone
    /\ Updates # {}
    /\ db' = [n \in Nodes |-> IF n \in Updates THEN Applied(opc, db[n], wres[n]) ELSE db[n]]
    /\ written' = written \cup Updates
    /\ nWrites' = nWrites + 1
    /\ Advance
    /\ bpc' = "query"
    /\ wpc' = IdleWorkers
    /\ wres' = NoResults
    /\ runWritten' = runWritten \cup Updates
    /\ UNCHANGED <<fileVars, envVars, faultVars, statVars,
                   cache, err, rs, saveCount, batch, bpass, cache0, rs0,
                   seenStale, wrote, crossRead, branch, passLog, embWritten>>

\* execute_write_query raises: process_batch and the pass raise.
BatchWriteRaises ==
    /\ BatchDone
    /\ Updates # {}
    /\ Fault
    /\ UNCHANGED llmFailed
    /\ nWrites' = nWrites + 1
    /\ err' = TRUE
    /\ opc' = OnException
    /\ bpc' = "query"
    /\ wpc' = IdleWorkers
    /\ wres' = NoResults
    /\ UNCHANGED <<fileVars, envVars, statVars, obsVars,
                   cache, db, rs, saveCount, batch, bpass, level, cache0, rs0, written>>

----------------------------------------------------------------------------
(* EntityEmbedder.add_entity_labels_and_embeddings                         *)

EmbedAll ==
    /\ opc = "embed"
    /\ db' = [n \in Nodes |-> [db[n] EXCEPT !.emb = db[n].summary]]
    /\ opc' = NextPass(opc)
    /\ embWritten' = {n \in Nodes : db[n].summary # 0}
    /\ passLog' = Logged(opc)
    /\ UNCHANGED <<fileVars, envVars, faultVars, passVars, workVars, statVars,
                   snapVars, cache, err, rs, saveCount, seenStale, wrote, crossRead,
                   branch, runWritten>>

EmbedRaises ==
    /\ opc = "embed"
    /\ Fault
    /\ UNCHANGED llmFailed
    /\ err' = TRUE
    /\ opc' = OnException
    /\ passLog' = Logged(opc)
    /\ UNCHANGED <<fileVars, envVars, passVars, workVars, statVars,
                   snapVars, cache, db, rs, saveCount, seenStale, wrote, crossRead,
                   branch, runWritten, embWritten>>

----------------------------------------------------------------------------
(* RagOrchestrator.run_rag_passes                                          *)

\* The previous invocation returned normally, summarized everything and
\* promoted its cache.
CompleteRun ==
    /\ opc = "returned"
    /\ saveOutcome = "promoted"
    /\ \A n \in Nodes : db[n].summary # 0
    /\ \A m \in Methods : db[m].code_analysis # 0 /\ db[m].code_hash # 0

\* A method's source file is edited between two invocations.
EditSource(m) ==
    /\ opc \in {"returned", "raised"}
    /\ runNo < MaxRuns
    /\ m \notin pending
    /\ Cardinality(pending) < MaxEdits
    /\ src' = [src EXCEPT ![m] = src[m] + 1]
    /\ pending' = pending \cup {m}
    /\ UNCHANGED <<fileVars, faultVars, passVars, workVars, statVars, obsVars, snapVars,
                   cache, opc, err, db, rs, saveCount, edited, prevComplete, runNo, sameProc, failedIn,
                   normVars, tokVars>>

\* What every entry into run_rag_passes resets in the model's bookkeeping.
EnterRun ==
    /\ opc \in {"idle", "returned", "raised"}
    /\ runNo < MaxRuns
    /\ runNo' = runNo + 1
    /\ prevComplete' = CompleteRun
    /\ edited' = pending
    /\ pending' = {}
    /\ err' = FALSE
    /\ opc' = "load"
    /\ astat' = [m \in Methods |-> "pending"]
    /\ sstat' = [n \in Nodes |-> "pending"]
    /\ runFaults' = 0
    /\ llmFailed' = {}
    /\ saveCount' = 0
    /\ seenStale' = [n \in Nodes |-> FALSE]
    /\ crossRead' = {}
    /\ wrote' = {}
    /\ batch' = {}
    /\ bpass' = "none"
    /\ bpc' = "query"
    /\ level' = 1
    /\ cache0' = EmptyCache
    /\ rs0' = [n \in Nodes |-> "none"]
    /\ written' = {}
    /\ nWrites' = 0
    /\ branch' = [n \in Nodes |-> "none"]
    /\ passLog' = <<>>
    /\ runWritten' = {}
    /\ embWritten' = {}
    /\ UNCHANGED <<fileVars, workVars, faults, src, db, failedIn, normVars, tokVars>>

\* A new process: RagOrchestrator.__init__ and SummaryCacheManager.__init__
\* (empty cache, empty runtime_status), then run_rag_passes is entered.
StartRun ==
    /\ EnterRun
    /\ cache' = EmptyCache
    /\ rs' = [n \in Nodes |-> "none"]
    /\ sameProc' = FALSE

\* run_rag_passes is called again on the same RagOrchestrator: nothing is
\* constructed, the cache manager keeps its cache and its runtime_status.
Rerun ==
    /\ EnterRun
    /\ runNo >= 1
    /\ sameProc' = TRUE
    /\ UNCHANGED <<cache, rs>>

\* self.cache_manager.load()
Load ==
    /\ opc = "load"
    /\ cache' = LoadResult(disk.main)
    /\ opc' = PassOrder[1]
    /\ UNCHANGED <<fileVars, envVars, faultVars, passVars, workVars, statVars, obsVars,
                   snapVars, err, db, rs, saveCount>>

\* load(): reading the existing file raises IOError; the cache starts empty.
LoadFails ==
    /\ opc = "load"
    /\ disk.main.kind = "json"
    /\ Fault
    /\ UNCHANGED llmFailed
    /\ cache' = EmptyCache
    /\ opc' = PassOrder[1]
    /\ UNCHANGED <<fileVars, envVars, passVars, workVars, statVars, obsVars,
                   snapVars, err, db, rs, saveCount>>

\* finally: self.cache_manager.save()
Finally ==
    /\ opc = "finally"
    /\ spc = "idle"
    /\ spc' = "open"
    /\ preSave' = disk
    /\ saveOutcome' = "none"
    /\ saveCount' = saveCount + 1
    /\ opc' = "saving"
    /\ UNCHANGED <<disk, loaded, envVars, faultVars, passVars, workVars, statVars,
                   obsVars, snapVars, cache, err, db, rs>>

\* save() has returned: run_rag_passes returns, or the exception propagates.
SaveReturn ==
    /\ opc = "saving"
    /\ spc = "done"
    /\ spc' = "idle"
    /\ opc' = IF err THEN "raised" ELSE "returned"
    /\ UNCHANGED <<disk, preSave, saveOutcome, loaded, envVars, faultVars, passVars,
                   workVars, statVars, obsVars, snapVars, cache, err, db, rs, saveCount>>

----------------------------------------------------------------------------
(* The pipeline: a fresh graph, no cache files, then up to MaxRuns runs.   *)

NoNode == [summary |-> 0, code_analysis |-> 0, code_hash |-> 0, emb |-> 0]

SumIdle ==
    /\ err = FALSE
    /\ db = [n \in Nodes |-> NoNode]
    /\ src = [m \in Methods |-> 1]
    /\ rs = [n \in Nodes |-> "none"]
    /\ runNo = 0
    /\ bpc = "query"
    /\ level = 1
    /\ batch = {}
    /\ bpass = "none"
    /\ wpc = IdleWorkers
    /\ wres = NoResults
    /\ astat = [m \in Methods |-> "pending"]
    /\ sstat = [n \in Nodes |-> "pending"]
    /\ faults = 0
    /\ runFaults = 0
    /\ llmFailed = {}
    /\ saveCount = 0
    /\ edited = {}
    /\ pending = {}
    /\ prevComplete = FALSE
    /\ seenStale = [n \in Nodes |-> FALSE]
    /\ wrote = {}
    /\ crossRead = {}
    /\ cache0 = EmptyCache
    /\ rs0 = [n \in Nodes |-> "none"]
    /\ written = {}
    /\ nWrites = 0
    /\ branch = [n \in Nodes |-> "none"]
    /\ passLog = <<>>
    /\ runWritten = {}
    /\ embWritten = {}
    /\ sameProc = FALSE
    /\ failedIn = [n \in Nodes |-> 0]

RunIdle == SumIdle /\ NormIdle /\ TokIdle

Init ==
    /\ disk = NoFiles
    /\ cache = EmptyCache
    /\ spc = "idle"
    /\ preSave = NoFiles
    /\ saveOutcome = "none"
    /\ loaded = EmptyCache
    /\ opc = "idle"
    /\ RunIdle

Next ==
    \/ StartRun
    \/ Rerun
    \/ \E m \in Methods : EditSource(m)
    \/ Load
    \/ LoadFails
    \/ PassQuery
    \/ QueryRaises
    \/ \E n \in Nodes : Worker(n)
    \/ BatchNoUpdates
    \/ BatchWrite
    \/ BatchWriteRaises
    \/ EmbedAll
    \/ EmbedRaises
    \/ Finally
    \/ SaveStep
    \/ SaveReturn

Spec == Init /\ [][Next]_vars

----------------------------------------------------------------------------
(* The pipeline started on a project whose main cache file was replaced by *)
(* a file of OldCacheItems entries of other entities.                      *)

OldCacheItems == 10000

ReplacedCacheFile == JsonDump([ents |-> EmptyCache.ents, pad |-> OldCacheItems])

InitReplaced ==
    /\ disk = [NoFiles EXCEPT !.main = ReplacedCacheFile]
    /\ cache = EmptyCache
    /\ spc = "idle"
    /\ preSave = NoFiles
    /\ saveOutcome = "none"
    /\ loaded = EmptyCache
    /\ opc = "idle"
    /\ RunIdle

SpecReplaced == InitReplaced /\ [][Next]_vars

----------------------------------------------------------------------------
(* Direct use of the cache manager: save() on an arbitrary cache and       *)
(* arbitrary files, the process stopping at any point, load() on restart.  *)

MaxOver == 2

PadSizes == {0} \cup ((SanityFloor - MaxOver - 4) .. (SanityFloor + MaxOver))

SampleEnts ==
    { EmptyCache.ents,
      [EmptyCache.ents EXCEPT !["m1"] =
          [present |-> TRUE, summary |-> 1, code_analysis |-> 1, code_hash |-> 11]],
      [EmptyCache.ents EXCEPT !["t1"] =
          [present |-> TRUE, summary |-> 2, code_analysis |-> 0, code_hash |-> 0],
                              !["m2"] = EmptyEntry] }

SampleCaches == [ents : SampleEnts, pad : PadSizes]

SampleFiles == {Absent, Corrupt} \cup {JsonDump(c) : c \in SampleCaches}

OldFiles == {Absent, JsonDump([ents |-> EmptyCache.ents, pad |-> 1])}

InitSave ==
    /\ cache \in SampleCaches
    /\ disk \in [main : SampleFiles, tmp : OldFiles, bak1 : OldFiles, bak2 : OldFiles]
    /\ spc = "idle"
    /\ preSave = disk
    /\ saveOutcome = "none"
    /\ loaded = EmptyCache
    /\ opc = "api"
    /\ RunIdle

ApiSave ==
    /\ opc = "api"
    /\ spc = "idle"
    /\ spc' = "open"
    /\ preSave' = disk
    /\ saveOutcome' = "none"
    /\ UNCHANGED <<disk, cache, loaded, opc, runVars>>

\* The process stops between two file operations of save().
Crash ==
    /\ opc = "api"
    /\ InSave
    /\ spc' = "crashed"
    /\ UNCHANGED <<disk, cache, preSave, saveOutcome, loaded, opc, runVars>>

\* load() of the restarted process.
RestartLoad ==
    /\ opc = "api"
    /\ spc = "crashed"
    /\ loaded' = LoadResult(disk.main)
    /\ spc' = "restarted"
    /\ UNCHANGED <<disk, cache, preSave, saveOutcome, opc, runVars>>

\* load() called after save() has returned.
ApiLoad ==
    /\ opc = "api"
    /\ spc = "done"
    /\ loaded' = LoadResult(disk.main)
    /\ spc' = "reloaded"
    /\ UNCHANGED <<disk, cache, preSave, saveOutcome, opc, runVars>>

NextSave == ApiSave \/ SaveStep \/ Crash \/ RestartLoad \/ ApiLoad

SpecSave == InitSave /\ [][NextSave]_vars

----------------------------------------------------------------------------
(* The normalization passes on every scanned graph of the fixture.         *)

InitNorm ==
    /\ disk = NoFiles
    /\ cache = EmptyCache
    /\ spc = "idle"
    /\ preSave = NoFiles
    /\ saveOutcome = "none"
    /\ loaded = EmptyCache
    /\ opc = "norm"
    /\ SumIdle
    /\ \E fa \in FqnsOfA, fb \in FqnsOfB, ph \in BOOLEAN, nested \in BOOLEAN :
          /\ g = Scanned(fa, fb, ph, nested)
          /\ gReloc = Scanned(fa, fb, ph, nested)
    /\ npc = EnrichmentPasses[1]
    /\ relocMap = EmptyMap
    /\ normLog = <<>>
    /\ relocRuns = 0
    /\ TokIdle

NextNorm ==
    \/ PassAddAbsolutePaths
    \/ PassLabelSourceFiles
    \/ PassLinkTypes
    \/ LinkTypesRaises
    \/ PassLinkMembers
    \/ PassCreateProjectNode
    \/ PassEstablishSourceHierarchy
    \/ PassRelocate
    \/ RelocateAgain
    \/ PassRewriteContainment
    \/ PassEstablishClassHierarchy
    \/ PassCleanupPackageSemantics
    \/ PassLinkProjectToArtifacts
    \/ PassCreateEntities
    \/ CreateEntitiesRaises

SpecNorm == InitNorm /\ [][NextNorm]_vars

----------------------------------------------------------------------------
(* chunk_text_by_tokens on every token sequence up to MaxTokens and every  *)
(* context size of ContextSizes.                                           *)

MaxTokens == 24
\* max_context_token_size values; below 2 the chunk size is 0
ContextSizes == {2, 5, 10, 20, 21}

InitChunk ==
    /\ disk = NoFiles
    /\ cache = EmptyCache
    /\ spc = "idle"
    /\ preSave = NoFiles
    /\ saveOutcome = "none"
    /\ loaded = EmptyCache
    /\ opc = "chunk"
    /\ SumIdle
    /\ NormIdle
    /\ AuxIdle
    /\ fold = FoldIdle
    /\ link = LinkIdle
    /\ \E m \in ContextSizes, n \in 0..MaxTokens :
          tk = [TkIdle EXCEPT !.max_context = m, !.tokens = [k \in 1..n |-> k],
                              !.pc = "call"]

NextChunk == ChunkTextEnter \/ ChunkTextTakeRest \/ ChunkTextTakeChunk

SpecChunk == InitChunk /\ [][NextChunk]_vars

----------------------------------------------------------------------------
(* The regeneration step on every node kind with small dependency lists.   *)

MaxSummaries == 2
SummarySizes == {1, 4, 9}
FoldContextSizes == {8, 16}

SummaryLists == UNION {[1..n -> SummarySizes] : n \in 0..MaxSummaries}

InitFold ==
    /\ disk = NoFiles
    /\ cache = EmptyCache
    /\ spc = "idle"
    /\ preSave = NoFiles
    /\ saveOutcome = "none"
    /\ loaded = EmptyCache
    /\ opc = "fold"
    /\ SumIdle
    /\ NormIdle
    /\ AuxIdle
    /\ tk = TkIdle
    /\ link = LinkIdle
    /\ \E kind \in NodeKinds, m \in FoldContextSizes,
          first \in SummaryLists, second \in SummaryLists,
          ca \in SummarySizes, sp \in {0, 1}, sep \in {1, 2} :
          /\ kind \in HierarchicalKinds => second = <<>>
          /\ kind # "method" => ca = 1
          /\ fold = FoldCall(kind, m, IF kind = "method" THEN ca ELSE 0,
                             first, second, sp, sep)

NextFold ==
    \/ FoldContextCheck
    \/ FoldSinglePrompt
    \/ FoldNextChunk
    \/ FoldLoopsDone
    \/ FoldReturn
    \/ HierarchicalSecondCall
    \/ HierarchicalPromptUnbound

SpecFold == InitFold /\ [][NextFold]_vars

----------------------------------------------------------------------------
(* _enrich_graph_with_types on metadata lists of up to MaxBatches full     *)
(* batches and one more file, any write query failing.                     *)

MaxBatches == 3
MetadataSizes == {k * BatchSize + r : k \in 0..MaxBatches, r \in {0, 1}}

InitLink ==
    /\ disk = NoFiles
    /\ cache = EmptyCache
    /\ spc = "idle"
    /\ preSave = NoFiles
    /\ saveOutcome = "none"
    /\ loaded = EmptyCache
    /\ opc = "link"
    /\ SumIdle
    /\ NormIdle
    /\ AuxIdle
    /\ tk = TkIdle
    /\ fold = FoldIdle
    /\ \E n \in MetadataSizes : link = [LinkIdle EXCEPT !.n = n, !.pc = "call"]

NextLink == EnrichEnter \/ EnrichBatchWrite \/ EnrichBatchFails \/ EnrichReturn

SpecLink == InitLink /\ [][NextLink]_vars

\* The rows the class-file query can return: the class file A with one of
\* its fqns, and optionally B, a second copy of com.A in another output
\* directory, and a class file C next to the directory com.
AnchorRowsOf(fa, fb, copy, fc) ==
    {[fqn |-> fa, path |-> <<"out", "com", "A.class">>]}
    \cup (IF fb = NoPath THEN {} ELSE {[fqn |-> fb, path |-> <<"s", "B.class">>]})
    \cup (IF copy THEN {[fqn |-> <<"com", "A">>, path |-> <<"s", "com", "A.class">>]} ELSE {})
    \cup (IF fc = NoPath THEN {} ELSE {[fqn |-> fc, path |-> <<"out", "C.class">>]})

FqnsOfC == {NoPath, <<"C">>, <<"out", "C">>, <<"x", "C">>}

InitAnchor ==
    /\ disk = NoFiles
    /\ cache = EmptyCache
    /\ spc = "idle"
    /\ preSave = NoFiles
    /\ saveOutcome = "none"
    /\ loaded = EmptyCache
    /\ opc = "anchor"
    /\ SumIdle
    /\ NormIdle
    /\ tk = TkIdle
    /\ fold = FoldIdle
    /\ link = LinkIdle
    /\ lvl = LvlIdle
    /\ emb = EmbIdle
    /\ \E rows \in {{}} \cup {AnchorRowsOf(fa, fb, copy, fc) : fa \in FqnsOfA, fb \in FqnsOfB, copy \in BOOLEAN, fc \in FqnsOfC} :
          anc = [AncIdle EXCEPT !.rows = rows, !.pc = "call"]

NextAnchor == AnchorEnter \/ AnchorMismatch \/ AnchorRoot \/ AnchorLoopExit

\* The loop goes on as long as it can.
SpecAnchor == InitAnchor /\ [][NextAnchor]_vars /\ WF_vars(NextAnchor)

\* The numbers of summarized entities: around every multiple of the page size.
MaxPages == 2
EntityCounts == {k * EmbedBatchSize + r : k \in 0..MaxPages, r \in {0, 1, 2, 499}}

\* The summary texts of the rows (a number per text), with repetitions.
SummaryOfRow(i) == 1 + (i % 7)

InitEmbed ==
    /\ disk = NoFiles
    /\ cache = EmptyCache
    /\ spc = "idle"
    /\ preSave = NoFiles
    /\ saveOutcome = "none"
    /\ loaded = EmptyCache
    /\ opc = "embedder"
    /\ SumIdle
    /\ NormIdle
    /\ tk = TkIdle
    /\ fold = FoldIdle
    /\ link = LinkIdle
    /\ lvl = LvlIdle
    /\ anc = AncIdle
    /\ \E n \in EntityCounts, old \in {0, 101} :
          emb = [EmbIdle EXCEPT !.summary = [i \in 1..n |-> SummaryOfRow(i)],
                                !.embedding = [i \in 1..n |-> old],
                                !.pc = "call"]

NextEmbed == EmbedEnter \/ EmbedFetchPage \/ EmbedEmptyPage \/ EmbedWritePage \/ EmbedPageRaises \/ EmbedCreateIndex

\* Every query and every call returns or raises.
SpecEmbed == InitEmbed /\ [][NextEmbed]_vars /\ WF_vars(NextEmbed)

\* The normalizer's passes up to the containment rewrite and then
\* rewrite_requirement_relationships, on the 64 scanned graphs with the
\* REQUIRES and DEPENDS_ON edges of their classes.
InitReq ==
    /\ disk = NoFiles
    /\ cache = EmptyCache
    /\ spc = "idle"
    /\ preSave = NoFiles
    /\ saveOutcome = "none"
    /\ loaded = EmptyCache
    /\ opc = "norm"
    /\ SumIdle
    /\ \E fa \in FqnsOfA, fb \in FqnsOfB, ph \in BOOLEAN, nested \in BOOLEAN :
          /\ g = WithRequirements(Scanned(fa, fb, ph, nested))
          /\ gReloc = WithRequirements(Scanned(fa, fb, ph, nested))
    /\ npc = EnrichmentPasses[1]
    /\ relocMap = EmptyMap
    /\ normLog = <<>>
    /\ relocRuns = 0
    /\ TokIdle

NextReq == PassAddAbsolutePaths \/ PassLabelSourceFiles \/ PassLinkTypes \/ PassLinkMembers \/ PassCreateProjectNode \/ PassEstablishSourceHierarchy \/ PassRelocate \/ PassRewriteContainment \/ PassRewriteRequirements

SpecReq == InitReq /\ [][NextReq]_vars

\* TypeSummarizer.run on every inheritance graph over the three types.
InitLevels ==
    /\ disk = NoFiles
    /\ cache = EmptyCache
    /\ spc = "idle"
    /\ preSave = NoFiles
    /\ saveOutcome = "none"
    /\ loaded = EmptyCache
    /\ opc = "levels"
    /\ SumIdle
    /\ NormIdle
    /\ tk = TkIdle
    /\ fold = FoldIdle
    /\ link = LinkIdle
    /\ anc = AncIdle
    /\ emb = EmbIdle
    /\ \E all_ids \in SUBSET Types, parents \in SUBSET (Types \X Types) :
          lvl = [LvlIdle EXCEPT !.src = all_ids, !.parents = parents, !.pc = "call"]

NextLevels == LevelsQueryAll \/ LevelsQueryLevel0 \/ LevelsNextLevel \/ LevelsBreak \/ TypeRunFetch \/ TypeRunBatch \/ TypeRunReturn

\* Every step of run() is taken: the queries and the batches return.
SpecLevels == InitLevels /\ [][NextLevels]_vars /\ WF_vars(NextLevels)

----------------------------------------------------------------------------
(* Claims about save() (checked under SpecSave).                           *)

\* C1: with a readable main file holding old > 100 entries and an in-memory
\* cache of new < 0.95*old entries, save() aborts promotion: main, .bak.1 and
\* .bak.2 are as they were and the freshly written .tmp stays; for every other
\* (old, new) with a readable main file the promotion proceeds.
C1_SanityGate ==
    (spc = "done" /\ saveOutcome # "write_error" /\ preSave.main.kind = "json") =>
        LET old == JsonLen(preSave.main)
            new == CacheLen(cache)
        IN  IF old > 100 /\ 20 * new < 19 * old
            THEN /\ disk.main = preSave.main
                 /\ disk.bak1 = preSave.bak1
                 /\ disk.bak2 = preSave.bak2
                 /\ disk.tmp = JsonDump(cache)
            ELSE /\ disk.main = JsonDump(cache)
                 /\ disk.bak1 = preSave.main
                 /\ disk.tmp = Absent

C1_Witness ==
    /\ spc = "done"
    /\ saveOutcome = "aborted"
    /\ preSave.main.kind = "json"
    /\ JsonLen(preSave.main) = 101
    /\ CacheLen(cache) = 95
    /\ disk.tmp = JsonDump(cache)
    /\ disk.main = preSave.main

\* C2: save() is crash-safe and atomic: wherever the process stops inside
\* save(), the main file exists and holds the complete pre-save contents or
\* the complete new contents, and the load() of the restart reads one of them.
C2_CrashSafeAtomic ==
    (preSave.main.kind = "json" /\ (InSave \/ spc \in {"crashed", "restarted"})) =>
        /\ disk.main \in {preSave.main, JsonDump(cache)}
        /\ spc = "restarted" => loaded \in {JsonLoad(preSave.main), cache}

----------------------------------------------------------------------------
(* Claims about the summarization pipeline (checked under Spec).           *)

\* C3: dependency freshness.  If, when the waterfall of a node is decided,
\* one of its dependency ids is marked changed, the node's result is never
\* unchanged and never restored.
C3_DependencyFreshness ==
    \A n \in Nodes :
        seenStale[n] =>
            /\ wres[n].status \notin {"unchanged", "restored"}
            /\ sstat[n] \notin {"unchanged", "restored"}

C3_Witness ==
    /\ runNo = 2
    /\ prevComplete
    /\ seenStale["t3"]
    /\ db["t3"].summary = 2
    /\ sstat["t3"] = "regenerated"

\* The nodes whose summary transitively depends on method m.
RECURSIVE DependentsFrom(_)
DependentsFrom(S) ==
    LET more == {n \in Nodes \ S :
                    \/ \E x \in S : <<n, x>> \in Declares \cup Extends \cup ContainsSource
                    \/ \E x \in S : <<x, n>> \in WithSource /\ x \in Types}
    IN  IF more = {} THEN S ELSE DependentsFrom(S \cup more)

Affected(m) == DependentsFrom({m})

\* C4: incremental re-run.  After a complete run, one method is edited and
\* the pipeline runs again with every LLM call answering: the method, its
\* type, its file, every ancestor directory and the project end regenerated,
\* every other node ends unchanged or restored, whatever the interleaving.
C4_IncrementalRerun ==
    (opc = "returned" /\ prevComplete /\ ~sameProc /\ runFaults = 0
        /\ Cardinality(edited) = 1) =>
        LET m == CHOOSE x \in edited : TRUE
        IN  /\ astat[m] = "regenerated"
            /\ \A n \in Affected(m) : sstat[n] = "regenerated"
            /\ \A n \in Nodes \ Affected(m) : sstat[n] \in {"unchanged", "restored"}
            /\ \A k \in Methods \ {m} : astat[k] \in {"unchanged", "restored"}

\* C5: in the directory pass the waterfall of a directory is never decided
\* before every deeper directory has finished and recorded its result.
C5_DirectoryLevelOrder ==
    (opc = "dir" /\ bpc = "run") =>
        \A d \in batch : \A e \in batch :
            (PathDepth(e) > PathDepth(d) /\ wpc[d] # "ready") =>
                wpc[e] \in {"done", "failed"}

\* C6: no item of a batch reads a cache summary or a changed flag that
\* another item of the same batch wrote during the batch.
C6_BatchOrderIndependent ==
    crossRead = {}

InUpdateNodeCache(n)   == wpc[n] \in {"uc_check", "uc_insert", "uc_update"}
InSetRuntimeStatus(n)  == wpc[n] \in {"rs_check", "rs_insert", "rs_set"}

\* C7: at no time are two workers inside update_node_cache, nor two workers
\* inside set_runtime_status.
C7_WritesSerialized ==
    \A a \in Nodes : \A b \in Nodes \ {a} :
        /\ ~(InUpdateNodeCache(a) /\ InUpdateNodeCache(b))
        /\ ~(InSetRuntimeStatus(a) /\ InSetRuntimeStatus(b))

\* C8: run_rag_passes executes save() exactly once, after the last executed
\* pass and before it returns or lets the exception of a pass propagate.
C8_SaveExactlyOnce ==
    /\ opc \in {"load", "embed", "finally"} \cup SummarizerPasses => saveCount = 0
    /\ opc = "saving" => saveCount = 1
    /\ opc \in {"returned", "raised"} => (saveCount = 1 /\ saveOutcome # "none")

C8_Witness ==
    /\ opc = "raised"
    /\ bpass = "type"
    /\ saveCount = 1
    /\ saveOutcome = "promoted"

\* C9 (I6): at the end of every run whose save promoted the cache, for every
\* entity marked changed the summary, code_analysis and code_hash of the
\* on-disk cache equal those of the graph node.
C9_CacheAgreesWithGraph ==
    (opc \in {"returned", "raised"} /\ saveOutcome = "promoted") =>
        \A n \in Nodes :
            rs[n] = "changed" =>
                LET e == LoadResult(disk.main).ents[n]
                IN  /\ e.summary = db[n].summary
                    /\ e.code_analysis = db[n].code_analysis
                    /\ e.code_hash = db[n].code_hash

BatchFinished == bpass # "none" /\ bpc = "query"

PassFieldsEqualDb(pass, n) ==
    IF pass = "analyzer"
    THEN /\ cache.ents[n].code_analysis = db[n].code_analysis
         /\ cache.ents[n].code_hash = db[n].code_hash
    ELSE cache.ents[n].summary = db[n].summary

NoLlmNoMark(n) == wpc[n] \in {"uc_check", "uc_insert", "uc_update", "done", "idle"}

\* C11: waterfall branch 1.  An item decided while its DB value was present and
\* fresh makes no LLM call and ends unchanged: its cache entry then carries the
\* DB values, its changed flag is what it was at batch start, and the node is
\* not among the rows of the batch's DB write.
C11_DbFreshUnchanged ==
    \A n \in Nodes :
        (bpass # "none" /\ n \in batch /\ branch[n] = "db") =>
            /\ NoLlmNoMark(n)
            /\ wpc[n] # "idle" => wres[n].status = "unchanged"
            /\ wpc[n] \in {"done", "idle"} =>
                  /\ StatOf(bpass, n) = "unchanged"
                  /\ cache.ents[n].present
                  /\ PassFieldsEqualDb(bpass, n)
            /\ rs[n] = rs0[n]
            /\ n \notin written

C11_Witness ==
    \E n \in batch :
        /\ bpass = "type"
        /\ branch[n] = "db"
        /\ wpc[n] = "done"
        /\ sstat[n] = "unchanged"
        /\ ~cache0.ents[n].present
        /\ db[n].summary # 0
        /\ cache.ents[n].summary = db[n].summary

\* C12: waterfall branch 2.  An item decided while branch 1 did not apply and
\* the cache held a matching value makes no LLM call and ends restored: its
\* cache entry keeps the cached value, its changed flag is what it was at
\* batch start (and is not set at all in a run of a new process), and when
\* the batch's DB write goes through the node is one of its rows and the
\* graph node carries the cached value.
C12_CacheRestore ==
    \A n \in Nodes :
        (bpass # "none" /\ n \in batch /\ branch[n] = "cache") =>
            /\ NoLlmNoMark(n)
            /\ wpc[n] # "idle" => wres[n].status = "restored"
            /\ wpc[n] \in {"done", "idle"} =>
                  /\ StatOf(bpass, n) = "restored"
                  /\ cache.ents[n] = cache0.ents[n]
            /\ rs[n] = rs0[n]
            /\ ~sameProc => rs[n] # "changed"
            /\ (BatchFinished /\ written # {}) =>
                  /\ n \in written
                  /\ PassFieldsEqualDb(bpass, n)

C12_Witness ==
    \E n \in batch :
        /\ BatchFinished
        /\ bpass = "analyzer"
        /\ branch[n] = "cache"
        /\ astat[n] = "restored"
        /\ n \in written
        /\ db[n].code_analysis = cache0.ents[n].code_analysis
        /\ db[n].code_analysis # 0
        /\ rs[n] = "none"

\* C13: when run_rag_passes is entered no entity has changed = true.
C13_StatusResetPerRun ==
    opc = "load" => \A n \in Nodes : rs[n] # "changed"

\* C15: the passes issue their queries in the fixed order analysis, method
\* summary, type, file, directory, project, embedding; workers run only
\* inside the batch of the current pass, and a pass issues a query only when
\* no worker of an earlier batch is still running.
C15_PassesSequential ==
    LET order == <<"analyzer", "msum", "type", "file", "dir", "project", "embed">>
    IN  /\ \E k \in 0..Len(order) : passLog = SubSeq(order, 1, k)
        /\ bpc = "query" => \A n \in Nodes : wpc[n] = "idle"
        /\ \A n \in Nodes :
              wpc[n] # "idle" =>
                  /\ bpc = "run"
                  /\ bpass = opc
                  /\ n \in batch
                  /\ passLog # <<>>
                  /\ passLog[Len(passLog)] = opc

C15_Witness ==
    /\ opc = "finally"
    /\ ~err
    /\ passLog = <<"analyzer", "msum", "type", "file", "dir", "project", "embed">>
    /\ \A n \in Nodes : sstat[n] = "regenerated"

\* C16: a second run in a new process on the same graph, sources and saved
\* cache, after a first run that summarized every node: every node resolves
\* to unchanged, no summary write is sent, no node is marked changed and no
\* embedding is written.
C16_RerunIdempotent ==
    (opc \in {"finally", "saving", "returned"} /\ ~err /\ prevComplete /\ ~sameProc
        /\ edited = {} /\ runFaults = 0) =>
        /\ \A m \in Methods : astat[m] = "unchanged"
        /\ \A n \in Nodes : sstat[n] = "unchanged"
        /\ runWritten = {}
        /\ \A n \in Nodes : rs[n] # "changed"
        /\ embWritten = {}

----------------------------------------------------------------------------
(* Claims about graph normalization (checked under SpecNorm).              *)

\* The nine passes of the normalization pipeline, by the name of the method
\* that implements each.
NinePasses ==
    <<"merge_duplicate_types", "add_absolute_paths", "label_source_files",
      "relocate_directory_artifacts", "rewrite_containment_relationships",
      "rewrite_requirement_relationships", "establish_class_hierarchy",
      "cleanup_package_semantics", "link_project_to_artifacts">>

IsNinePass(p) == \E i \in 1..Len(NinePasses) : NinePasses[i] = p

\* The pipeline has run to its end, every pass as the orchestrator calls it.
Normalized == npc = "done" /\ relocRuns = 1

\* C14: when the pipeline has finished, the normalization passes that ran
\* are the nine passes, each exactly once, in the order merge duplicate
\* types, add absolute paths, label source files, relocate directory
\* artifacts, rewrite containment, rewrite requirements, establish class
\* hierarchy, cleanup package semantics, link project to artifacts.
C14_NinePassesInOrder ==
    Normalized => SelectSeq(normLog, IsNinePass) = NinePasses

\* C17: running the relocation again on the graph it produced changes no
\* label and no property: every node has the labels, fileName, fqn and
\* absolute_path the first run left, so a directory the first run promoted
\* is still an Artifact with the same fileName.
C17_RelocateIdempotent ==
    (relocRuns >= 2 /\ npc = AfterPass("relocate_directory_artifacts"))
        => /\ g.labels = gReloc.labels
           /\ g.fileName = gReloc.fileName
           /\ g.fqn = gReloc.fqn
           /\ g.abs = gReloc.abs

\* C18: after the full pipeline every Artifact has absolute_path = fileName,
\* and every File or Directory N contained by an Artifact A has
\* N.absolute_path = A.fileName + N.fileName.
C18_AbsolutePathInvariant ==
    Normalized =>
        /\ \A a \in GNodes : Has(g, a, "Artifact") => g.abs[a] = g.fileName[a]
        /\ \A e \in g.contains :
              (Has(g, e[1], "Artifact")
                 /\ (Has(g, e[2], "File") \/ Has(g, e[2], "Directory")))
              => g.abs[e[2]] = g.fileName[e[1]] \o g.fileName[e[2]]

\* C19: after the full pipeline, for every class-file Type T the directory
\* of T's absolute path ends with the path of T's package, and the rest of
\* it is the fileName of an Artifact that contains T.
C19_PackagePathInvariant ==
    Normalized =>
        \A t \in GNodes :
            (Has(g, t, "Type") /\ Has(g, t, "File") /\ Has(g, t, "Class"))
            => LET dir == Front(g.abs[t])
                   package == Front(g.fqn[t])
               IN /\ IsSuffix(package, dir)
                  /\ \E a \in GNodes :
                        /\ Has(g, a, "Artifact")
                        /\ <<a, t>> \in g.contains
                        /\ g.fileName[a] = SubSeq(dir, 1, Len(dir) - Len(package))

\* C20: after the full pipeline every Project, Artifact, File, Directory,
\* Package, Type and Member node has the Entity label and a non-empty
\* entity_id, whether or not an Artifact still contains it.
C20_EntityCoverage ==
    Normalized =>
        \A n \in GNodes :
            g.labels[n] \cap {"Project", "Artifact", "File", "Directory",
                              "Package", "Type", "Member"} # {}
            => Has(g, n, "Entity") /\ g.eid[n] # NoId

\* The entity pass has run, as the last call of the pipeline.
EntitiesRan == npc \in {"done", "raised"} /\ relocRuns = 1

\* C21: on every graph the pipeline produces, the stable keys of the nodes
\* the entity pass labels give pairwise different ids: the pass completes
\* without the uniqueness constraint rejecting a write, and no two distinct
\* Entity nodes have the same entity_id.
C21_EntityIdsUnique ==
    EntitiesRan =>
        /\ npc = "done"
        /\ \A n, m \in GNodes :
              (n # m /\ Has(g, n, "Entity") /\ Has(g, m, "Entity")) => g.eid[n] # g.eid[m]

\* Every node has at most one incoming edge of rel and no node reaches itself.
IsForest(rel) ==
    /\ \A e, f \in rel : e[2] = f[2] => e[1] = f[1]
    /\ \A n \in GNodes : <<n, n>> \notin Closure(rel)

\* C22: after normalization CONTAINS_SOURCE and CONTAINS_CLASS are each a
\* forest: every node has at most one parent under the relation and the
\* relation has no cycle.
C22_HierarchiesAreForests ==
    Normalized => IsForest(g.csrc) /\ IsForest(g.ccls)

\* The relocation has just run, once.
Relocated == relocRuns = 1 /\ npc = AfterPass("relocate_directory_artifacts")

\* The class files of the scanned root R all lie at root + the path of their
\* package, below R.
AllClassesRootedAt(root) ==
    LET classes == {c \in GNodes : Has(g, c, "File") /\ Has(g, c, "Class")
                                    /\ <<"R", c>> \in g.contains}
    IN /\ classes # {}
       /\ \A c \in classes :
             /\ g.fqn[c] # NoPath
             /\ Front(g.fileName[c]) = root \o Front(g.fqn[c])

\* C23: when every class file of a scanned Artifact lies under one non-empty
\* relative root, the relocation removes the Artifact label from the scanned
\* node, gives it to the directory at that root, sets that directory's
\* fileName to its absolute_path, and sets the fqn of every directory
\* strictly below the root to its path relative to the root.
C23_MisScannedRoot ==
    \A n \in GDirs :
        (Relocated /\ g.labels[n] # {} /\ n \notin {"R", "R2"}
           /\ AllClassesRootedAt(Tail(g.abs[n])))
        => /\ ~Has(g, "R", "Artifact")
           /\ Has(g, n, "Artifact")
           /\ g.fileName[n] = g.abs[n]
           /\ \A d \in GDirs :
                 (g.labels[d] # {} /\ IsPrefix(g.abs[n], g.abs[d]) /\ d # n)
                 => g.fqn[d] = SubSeq(g.abs[d], Len(g.abs[n]) + 1, Len(g.abs[d]))

C23_Witness ==
    /\ Relocated
    /\ AllClassesRootedAt(<<"out">>)
    /\ Has(g, "o", "Artifact") /\ ~Has(g, "R", "Artifact")
    /\ g.fileName["o"] = <<"proj", "out">>
    /\ g.fqn["oc"] = <<"com">>

\* The scanned root R was found correctly labeled.
FoundCorrect(map) == <<"proj">> \in DOMAIN map /\ map[<<"proj">>] = {<<"proj">>}

\* C24: when the only true root found for the scanned Artifact is the empty
\* relative path, the relocation leaves its Artifact label and fileName as
\* they were, gives no node the Artifact label, and writes nothing but fqn
\* values of directories the Artifact contains (what it removes from
\* another scanned Artifact aside).
C24_CorrectlyLabeled ==
    [][(npc = "relocate_directory_artifacts" /\ FoundCorrect(relocMap'))
        => /\ Has(g', "R", "Artifact")
           /\ g'.fileName = g.fileName
           /\ \A n \in GNodes :
                 /\ g'.labels[n] \subseteq g.labels[n]
                 /\ n # "R2" => g'.labels[n] = g.labels[n]
                 /\ g'.fqn[n] # g.fqn[n]
                      => Has(g, n, "Directory") /\ <<"R", n>> \in g.contains
           /\ g'.abs = g.abs /\ g'.eid = g.eid
           /\ g'.contains = g.contains /\ g'.ccls = g.ccls /\ g'.csrc = g.csrc]_vars

C24_Witness ==
    /\ Relocated
    /\ FoundCorrect(relocMap)
    /\ Has(g, "R", "Artifact")
    /\ g.fqn["oc"] = <<"out", "com">>

\* C25: after the containment rewrite every Artifact has a direct CONTAINS
\* edge to every node it reaches over CONTAINS edges, and the rewrite has
\* deleted edges only from nodes that are not Artifacts.
C25_ContainmentRewritten ==
    [][(npc = "rewrite_containment_relationships" /\ npc' = AfterPass(npc) /\ relocRuns = 1)
        => /\ \A e \in Closure(g'.contains) :
                 Has(g', e[1], "Artifact") => e \in g'.contains
           /\ \A e \in g.contains \ g'.contains : ~Has(g', e[1], "Artifact")]_vars

----------------------------------------------------------------------------
(* Claims about the regeneration step (checked under SpecFold) and about   *)
(* chunk_text_by_tokens (checked under SpecChunk).                         *)

\* The regeneration of the item has ended, by a return or by an exception.
FoldEnded == fold.pc \in {"done", "raised"}

\* C26: for every node kind (method, type, source file, directory, project),
\* when the joined dependency context does not fit within max_context and
\* every LLM call returned non-empty text, the processor returns status
\* "regenerated" with a non-empty summary equal to the output of the last
\* LLM call.
C26_OversizeFolded ==
    (FoldEnded /\ fold.oversize /\ ~fold.empty_seen) =>
        /\ fold.pc = "done"
        /\ fold.result.status = "regenerated"
        /\ fold.result.summary # EmptyText
        /\ fold.calls >= 1
        /\ fold.result.summary = LlmText(fold.calls)

\* C27: for every token sequence and every max_context, each chunk produced
\* by chunk_text_by_tokens holds at most iter_chunk = floor(0.5 * max_context)
\* tokens, the final chunk formed by merging a short trailing remainder
\* into the previous chunk included.
C27_ChunkWithinBudget ==
    tk.pc = "done" =>
        \A k \in 1..Len(tk.chunks) :
            Len(tk.chunks[k]) <= IterativeChunkSize(tk.max_context)

----------------------------------------------------------------------------
(* Claims about failing graph queries (checked under SpecLink).            *)

\* C28: a failure of a graph query issued by a pass is fatal to the pass:
\* the pass stops with the error propagating to its caller and performs
\* none of its remaining writes; it does not catch the failure and carry
\* on with the next batch.
C28_QueryFailureFatal ==
    link.failed # <<>> =>
        /\ link.pc = "raised"
        /\ link.i = link.failed[1] + BatchSize
        /\ \A k \in 1..Len(link.written) : link.written[k] < link.failed[1]

----------------------------------------------------------------------------
(* Claims about the cache files over whole runs (checked under             *)
(* SpecReplaced) and over sequences of saves.                              *)

\* The save() at the end of a run has ended without a write error, and the
\* main file held at least OldCacheItems entries when it was entered.
SaveEndedOnLargeFile ==
    /\ opc = "saving"
    /\ spc = "done"
    /\ saveOutcome # "write_error"
    /\ preSave.main.kind = "json"
    /\ JsonLen(preSave.main) >= OldCacheItems

\* C29: when the main cache file holds 10000 entries and a run (load, the
\* summarizer passes, save) processes only the few entities of the project,
\* the save at the end of the run aborts promotion: the .tmp file stays and
\* the main file is untouched.
C29_SanityAbortEndToEnd ==
    SaveEndedOnLargeFile =>
        /\ saveOutcome = "aborted"
        /\ disk.main = preSave.main
        /\ disk.tmp = JsonDump(cache)

\* C30: after every save() that promoted its file (it wrote .tmp and was not
\* aborted by the sanity gate), whatever the files were when it was entered,
\* .bak.1 holds exactly what the main file held immediately before the save
\* and .bak.2 holds exactly what .bak.1 held immediately before the save
\* (an absent file rotates to an absent file).  Checked under SpecSave.
C30_BackupRotation ==
    (spc = "done" /\ saveOutcome = "promoted") =>
        /\ disk.bak1 = preSave.main
        /\ disk.bak2 = preSave.bak1

C30_Witness ==
    /\ spc = "done"
    /\ saveOutcome = "promoted"
    /\ preSave.main.kind = "json"
    /\ preSave.bak1.kind = "json"
    /\ preSave.bak2.kind = "absent"
    /\ preSave.main # preSave.bak1
    /\ disk.bak1 = preSave.main
    /\ disk.bak2 = preSave.bak1
    /\ disk.main = JsonDump(cache)

\* C31: cache round trip.  For any in-memory cache map, a save() that
\* promoted its file followed by load() yields a map identical to the one
\* that was saved.  Checked under SpecSave.
C31_CacheRoundTrip ==
    (spc = "reloaded" /\ saveOutcome = "promoted") => loaded = cache

C31_Witness ==
    /\ spc = "reloaded"
    /\ saveOutcome = "promoted"
    /\ cache.ents["t1"].present
    /\ cache.ents["t1"].code_hash = 0
    /\ cache.ents["m2"] = EmptyEntry
    /\ preSave.main.kind = "json"
    /\ preSave.main # JsonDump(cache)
    /\ loaded = cache

\* C38: recoverability during save.  In every state of save(), after each
\* of its file operations (also when the process stops there), the complete
\* pre-save contents of the main file are in the main file or in .bak.1;
\* a save aborted by the sanity gate has changed no file but .tmp.
\* Checked under SpecSave.
C38_RecoverableDuringSave ==
    /\ (preSave.main.kind # "absent" /\ spc # "idle") =>
           (disk.main = preSave.main \/ disk.bak1 = preSave.main)
    /\ saveOutcome = "aborted" =>
           /\ disk.main = preSave.main
           /\ disk.bak1 = preSave.bak1
           /\ disk.bak2 = preSave.bak2

C38_Witness ==
    /\ spc = "move_tmp"
    /\ preSave.main.kind = "json"
    /\ preSave.bak1.kind = "json"
    /\ disk.main = Absent
    /\ disk.bak1 = preSave.main
    /\ disk.bak1 # preSave.bak1

\* The union of the levels found so far.
Levelled == UNION {lvl.types_by_level[k] : k \in DOMAIN lvl.types_by_level}

\* No set of source-linked types in which every type has a parent in the set.
AcyclicInheritance ==
    \A S \in SUBSET lvl.src : S # {} => \E t \in S : LinkedParents(t, lvl.src, lvl.parents) \cap S = {}

LevelsShape ==
    /\ \A i \in DOMAIN lvl.types_by_level : lvl.types_by_level[i] \subseteq lvl.src
    /\ \A i, j \in DOMAIN lvl.types_by_level : i # j => lvl.types_by_level[i] \cap lvl.types_by_level[j] = {}
    /\ lvl.pc \in {"loop", "fetch", "batch", "returned"} /\ lvl.src # {} =>
          /\ lvl.types_by_level # <<>> => lvl.types_by_level[1] = {t \in lvl.src : LinkedParents(t, lvl.src, lvl.parents) = {}}
          /\ lvl.types_by_level = <<>> => \A t \in lvl.src : LinkedParents(t, lvl.src, lvl.parents) # {}
    /\ \A i \in DOMAIN lvl.types_by_level : \A t \in lvl.types_by_level[i] :
          i > 1 => LinkedParents(t, lvl.src, lvl.parents) \subseteq UNION {lvl.types_by_level[k] : k \in 1..(i - 1)}
    /\ lvl.pc \in {"fetch", "batch", "returned"} /\ AcyclicInheritance => Levelled = lvl.src
    /\ \A p \in DOMAIN lvl.log : lvl.log[p][1] = "fetch" =>
          \A k \in 0..(lvl.log[p][2] - 1) : \E q \in 1..(p - 1) : lvl.log[q] = <<"batch", k>>

\* C32: type levels.  Each source-linked type is in at most one level;
\* level 0 is exactly the types without a source-linked parent; a type of
\* level k+1 has all its source-linked parents in levels <= k; on an acyclic
\* inheritance graph every source-linked type gets a level; the batch of
\* level k has returned before the context of level k+1 is fetched; and the
\* level loop and run() terminate.  Checked under SpecLevels.
C32_TypeLevels == []LevelsShape /\ <>(lvl.pc = "returned")

C32_Witness ==
    /\ lvl.pc = "returned"
    /\ AcyclicInheritance
    /\ Len(lvl.types_by_level) = 3
    /\ Len(lvl.log) = 6
    /\ \E t \in lvl.src : Cardinality(LinkedParents(t, lvl.src, lvl.parents)) = 2

\* The LLM calls a regeneration is to cost: one for a context that fits a
\* single prompt, one per chunk for a folded context.
ExpectedCalls(f) == IF f.oversize THEN Len(FoldChunks(f)) ELSE 1

\* C33: LLM call count.  For every node kind, a regeneration that returned a
\* regenerated result made exactly one LLM call when the context fitted a
\* single prompt and exactly one call per chunk otherwise, so no prompt was
\* sent twice for the node.  Checked under SpecFold.
C33_LlmCallCount ==
    (fold.pc = "done" /\ fold.result.status = "regenerated") => fold.calls = ExpectedCalls(fold)

\* The map agrees with the graph gr that the relocation of graph g0 left:
\* its promoted paths are Artifacts, and the new Artifacts are in it.
MapConsistent(g0, gr, map) ==
    /\ \A k \in DOMAIN map : \A p \in map[k] :
          \E n \in GNodes : gr.fileName[n] = p /\ Has(gr, n, "Artifact")
    /\ \A n \in GNodes : (Has(gr, n, "Artifact") /\ ~Has(g0, n, "Artifact")) =>
          \E k \in DOMAIN map : gr.fileName[n] \in map[k]

\* C34: after the relocation, whatever set of roots was discovered for each
\* scanned Artifact (the empty set and a set holding the empty relative path
\* next to other roots included), every path the map records as promoted is
\* the fileName of a node with the Artifact label, and every node that
\* gained the Artifact label is recorded in the map.  Checked under SpecNorm.
C34_MapConsistent ==
    [][(npc = "relocate_directory_artifacts") => MapConsistent(g, g', relocMap')]_vars

\* The relative roots the map records for the scanned Artifact k.
RootsOf(map, k) == {SubSeq(p, Len(k) + 1, Len(p)) : p \in map[k]}

\* path starts with root + "/".
StrictlyBelow(root, path) == IsPrefix(root, path) /\ Len(path) > Len(root)

\* C40: _correct_fqns_in_subtree changes the fqn only of directories whose
\* fileName starts with root + "/" for a root it was called with (not of the
\* root itself, not of a sibling whose name merely begins like the root's),
\* and every fqn it writes is the path relative to that root with dots for
\* slashes: non-empty and without a leading dot.  Checked under SpecNorm on
\* the relocation, which calls it once for every root.
C40_FqnFrame ==
    [][(npc = "relocate_directory_artifacts") =>
         \A n \in GNodes : g'.fqn[n] # g.fqn[n] =>
            \E k \in DOMAIN relocMap' : \E r \in RootsOf(relocMap', k) :
               /\ StrictlyBelow(r, g.fileName[n])
               /\ g'.fqn[n] = SubSeq(g.fileName[n], Len(r) + 1, Len(g.fileName[n]))
               /\ g'.fqn[n] # <<>>
               /\ g'.fqn[n][1] # ""]_vars

\* The step is the requirement rewrite.
RequirementStep ==
    npc = AfterPass("rewrite_containment_relationships") /\ npc' = "done"

\* C35: the requirement rewrite deletes REQUIRES edges only from scanned
\* roots that lost the Artifact label, and a scanned Artifact that was found
\* correctly labeled has exactly the REQUIRES edges it had.  Checked under
\* SpecReq.
C35_RequiresFrame ==
    [][RequirementStep =>
         /\ \A e \in g.requires \ g'.requires : e[1] \in {"R", "R2"} /\ ~Has(g, e[1], "Artifact")
         /\ FoundCorrect(relocMap) =>
               {e \in g'.requires : e[1] = "R"} = {e \in g.requires : e[1] = "R"}]_vars

\* The keys of the dict the anchor loop started with.
AnchorKeys == DOMAIN anc.removed

AnchorLoopShape ==
    /\ \A c \in anc.unprocessed : c.fqn # anc.anchor
    /\ \A f \in AnchorKeys : anc.removed[f] = (IF \E c \in anc.unprocessed : c.fqn = f THEN 0 ELSE 1)
    /\ anc.pc = "done" => anc.unprocessed = {}

\* C39: termination of the relocation.  The anchor loop ends; after every
\* iteration its anchor is no longer in the unprocessed set; and every
\* class of the set is removed exactly once.  Checked under SpecAnchor.
C39_AnchorLoopTerminates == []AnchorLoopShape /\ <>(anc.pc = "done")

C39_Witness ==
    /\ anc.pc = "done"
    /\ Cardinality(AnchorKeys) = 3
    /\ Cardinality(anc.roots) = 2
    /\ \E c \in anc.rows : ~AnchorMatches(c)
    /\ \A f \in AnchorKeys : anc.removed[f] = 1

\* The pages the loop has read are the rows in order, 500 at a time.
EmbedPaging ==
    /\ \A k \in DOMAIN emb.writes : emb.writes[k] \in 1..EmbedBatchSize /\ emb.writes[k] = emb.reads[k]
    /\ \A k \in DOMAIN emb.reads : emb.reads[k] = 0 => k = Len(emb.reads) /\ emb.pc \in {"index", "done"}
    /\ emb.pc = "done" =>
          /\ Len(emb.reads) = Len(emb.writes) + 1
          /\ emb.reads[Len(emb.reads)] = 0
          /\ emb.total = Len(emb.summary)
          /\ \A i \in DOMAIN emb.summary : emb.embedding[i] = GenerateEmbeddings(<<emb.summary[i]>>)[1]

----------------------------------------------------------------------------
(* Runs on a graph that an earlier complete run has already summarized:    *)
(* every node carries a summary in the DB, the saved cache file holds the  *)
(* same values, and the source of at most MaxEdits methods has been edited *)
(* since.  Checked under SpecRepair.                                       *)

\* The text every node got in the earlier run; the texts generated in run r
\* of the model are r, so it differs from all of them.
PriorText == MaxRuns + 1

PriorEntry(n) ==
    [present       |-> TRUE,
     summary       |-> PriorText,
     code_analysis |-> IF n \in Methods THEN PriorText ELSE 0,
     code_hash     |-> IF n \in Methods THEN Md5(1) ELSE 0]

PriorCache == [ents |-> [n \in Nodes |-> PriorEntry(n)], pad |-> 0]

PriorDb ==
    [n \in Nodes |->
        [summary       |-> PriorText,
         code_analysis |-> PriorEntry(n).code_analysis,
         code_hash     |-> PriorEntry(n).code_hash,
         emb           |-> PriorText]]

InitRepair ==
    /\ disk = [NoFiles EXCEPT !.main = JsonDump(PriorCache)]
    /\ cache = EmptyCache
    /\ spc = "idle"
    /\ preSave = NoFiles
    /\ saveOutcome = "none"
    /\ loaded = EmptyCache
    /\ opc = "idle"
    /\ \E ms \in SUBSET Methods :
          /\ Cardinality(ms) <= MaxEdits
          /\ src = [m \in Methods |-> IF m \in ms THEN 2 ELSE 1]
          /\ pending = ms
    /\ db = PriorDb
    /\ err = FALSE
    /\ rs = [n \in Nodes |-> "none"]
    /\ runNo = 0
    /\ bpc = "query"
    /\ level = 1
    /\ batch = {}
    /\ bpass = "none"
    /\ wpc = IdleWorkers
    /\ wres = NoResults
    /\ astat = [m \in Methods |-> "pending"]
    /\ sstat = [n \in Nodes |-> "pending"]
    /\ faults = 0
    /\ runFaults = 0
    /\ llmFailed = {}
    /\ saveCount = 0
    /\ edited = {}
    /\ prevComplete = FALSE
    /\ seenStale = [n \in Nodes |-> FALSE]
    /\ wrote = {}
    /\ crossRead = {}
    /\ cache0 = EmptyCache
    /\ rs0 = [n \in Nodes |-> "none"]
    /\ written = {}
    /\ nWrites = 0
    /\ branch = [n \in Nodes |-> "none"]
    /\ passLog = <<>>
    /\ runWritten = {}
    /\ embWritten = {}
    /\ sameProc = FALSE
    /\ failedIn = [n \in Nodes |-> 0]
    /\ NormIdle
    /\ TokIdle

SpecRepair == InitRepair /\ [][Next]_vars

\* The ids get_type_summary and get_hierarchical_summary pass to
\* was_dependency_changed for node n.
HierarchyDeps(n) ==
    UNION {Deps(pass, n) : pass \in {"type", "file", "dir", "project"}}

\* The DB summary of n predates the summary a dependency of n got in run r.
OutOfDateSince(n, r) ==
    /\ db[n].summary = PriorText
    /\ \E d \in HierarchyDeps(n) : db[d].summary = r

\* C37: eventual repair of staleness.  In the run after one that regenerated
\* a dependency of node n but left n's earlier DB summary in place (its LLM
\* call returned nothing or raised), with no source edited in between, n is
\* not resolved as unchanged while its DB summary still predates that
\* dependency's summary.
C37_StaleRepaired ==
    \A n \in Nodes \ Methods :
        (runNo = 2 /\ edited = {} /\ failedIn[n] = 1 /\ sstat[n] = "unchanged")
            => ~OutOfDateSince(n, 1)

============================================================================
